---------------------------- MODULE Spec2Model ----------------------------
(***************************************************************************)
(* Model of the procurement chatbot of src/Assignment/demo5.py: the        *)
(* memoized dataset loader, the question router handle_question with its   *)
(* ordered rules, the formatters, and the entry point chatbot_response.    *)
(*                                                                         *)
(* Texts are TLA+ strings.  The module is ASCII, so each emoji of the      *)
(* source is written as its short code between colons (":warning:" for     *)
(* U+26A0, ":x:" for U+274C, ":package:" for U+1F4E6, ...).                *)
(* Amounts of money are integers counting cents.                           *)
(***************************************************************************)
EXTENDS Integers, Sequences, FiniteSets, TLC

VARIABLES
  store,      \* the external collection: a sequence of raw records
  storeUp,    \* whether the MongoDB server answers
  fetch,      \* what collection.find() does: "records" or "raises"
  heap,       \* the DataFrame objects built so far: object id -> table
  cache,      \* lru_cache of load_procurement_data: <<>> or <<object id>>
  queries,    \* number of times the body of load_procurement_data has run
  pc,         \* per caller: where it stands in chatbot_response
  question,   \* per caller: the message it passed
  got,        \* per caller: the object id its load call returned (0: none)
  answer,     \* per caller: the text chatbot_response returned
  given,      \* the value handed to format_currency
  rendered    \* what that call of format_currency gave

vars == <<store, storeUp, fetch, heap, cache, queries, pc, question, got, answer, given, rendered>>

----------------------------------------------------------------------------
(* Text primitives (Python str operations).                                *)

Min(S) == CHOOSE a \in S : \A b \in S : a <= b
Max(S) == CHOOSE a \in S : \A b \in S : a >= b

\* the subsequence of the elements of s that satisfy Keep, in order
SelectIdx(n, Keep(_)) ==
  LET idx == {i \in 1..n : Keep(i)}
      Nth(k) == CHOOSE i \in idx : Cardinality({j \in idx : j <= i}) = k
  IN [k \in 1..Cardinality(idx) |-> Nth(k)]

At(s, i) == SubSeq(s, i, i)

\* s[i:j] with 1-based inclusive bounds, empty when out of range
Slice(s, i, j) == IF i >= 1 /\ j <= Len(s) /\ i <= j THEN SubSeq(s, i, j) ELSE ""

\* concatenation of f[lo] .. f[hi], by halves (the depth stays logarithmic)
RECURSIVE Cat(_, _, _)
Cat(f, lo, hi) ==
  IF lo > hi THEN ""
  ELSE IF lo = hi THEN f[lo]
  ELSE LET mid == (lo + hi) \div 2 IN Cat(f, lo, mid) \o Cat(f, mid + 1, hi)

MapChars(s, F(_, _)) == Cat([i \in 1..Len(s) |-> F(s, i)], 1, Len(s))

LowerLetters == <<"a","b","c","d","e","f","g","h","i","j","k","l","m",
                  "n","o","p","q","r","s","t","u","v","w","x","y","z">>
UpperLetters == <<"A","B","C","D","E","F","G","H","I","J","K","L","M",
                  "N","O","P","Q","R","S","T","U","V","W","X","Y","Z">>
LowerSet == {LowerLetters[i] : i \in 1..26}
UpperSet == {UpperLetters[i] : i \in 1..26}
DigitSet == {"0","1","2","3","4","5","6","7","8","9"}
IsAlpha(c) == c \in LowerSet \/ c \in UpperSet

LowerCh(c) == IF c \in UpperSet THEN LowerLetters[CHOOSE i \in 1..26 : UpperLetters[i] = c] ELSE c
UpperCh(c) == IF c \in LowerSet THEN UpperLetters[CHOOSE i \in 1..26 : LowerLetters[i] = c] ELSE c

LowerAt(s, i) == LowerCh(At(s, i))
UpperAt(s, i) == UpperCh(At(s, i))
\* str.title(): a letter that follows a non-letter is upper-cased, any other lower-cased
TitleAt(s, i) ==
  IF i = 1 \/ ~IsAlpha(At(s, i - 1)) THEN UpperCh(At(s, i)) ELSE LowerCh(At(s, i))

Lower(s) == MapChars(s, LowerAt)
Upper(s) == MapChars(s, UpperAt)
Title(s) == MapChars(s, TitleAt)

WhiteSet == {" ", "\t", "\n", "\r"}
\* str.strip()
Strip(s) ==
  LET keep == {i \in 1..Len(s) : At(s, i) \notin WhiteSet}
  IN IF keep = {} THEN "" ELSE SubSeq(s, Min(keep), Max(keep))

\* the positions at which sub occurs in s
Occurrences(s, sub) ==
  {i \in 1..(Len(s) - Len(sub) + 1) : SubSeq(s, i, i + Len(sub) - 1) = sub}
\* sub in s
Has(s, sub) == sub = "" \/ Occurrences(s, sub) # {}

\* str(n) for an integer n
RECURSIVE DecStr(_)
DecStr(n) ==
  IF n < 0 THEN "-" \o DecStr(0 - n)
  ELSE IF n < 10 THEN SubSeq("0123456789", n + 1, n + 1)
  ELSE DecStr(n \div 10) \o SubSeq("0123456789", (n % 10) + 1, (n % 10) + 1)

IsDigits(s) == s # "" /\ \A i \in 1..Len(s) : At(s, i) \in DigitSet
DigitVal(c) == CHOOSE d \in 0..9 : SubSeq("0123456789", d + 1, d + 1) = c
\* int(s) for a string of decimal digits
RECURSIVE IntOf(_)
IntOf(s) ==
  IF Len(s) = 0 THEN 0
  ELSE 10 * IntOf(SubSeq(s, 1, Len(s) - 1)) + DigitVal(At(s, Len(s)))

----------------------------------------------------------------------------
(* Regular expressions (Python re).  A pattern is a sequence of nodes; the *)
(* matcher returns the first match in re's backtracking order: leftmost    *)
(* start, alternatives from left to right, greedy repetitions longest      *)
(* first and lazy ones shortest first.                                     *)

WordSet == LowerSet \cup UpperSet \cup DigitSet \cup {"_"}

Lit(s) == [t |-> "lit", s |-> s]
\* a character class, or its complement
In(S) == [neg |-> FALSE, S |-> S]
NotIn(S) == [neg |-> TRUE, S |-> S]
W == In(WordSet)            \* \w
D == In(DigitSet)           \* \d
Sp == In(WhiteSet)          \* \s
Dot == NotIn({"\n"})        \* .
Inf == 1000
\* c{lo,hi} over a class c, greedy or lazy
Rep(c, lo, hi, greedy) == [t |-> "rep", c |-> c, lo |-> lo, hi |-> hi, g |-> greedy]
One(c) == Rep(c, 1, 1, TRUE)
Plus(c) == Rep(c, 1, Inf, TRUE)
Star(c) == Rep(c, 0, Inf, TRUE)
LazyPlus(c) == Rep(c, 1, Inf, FALSE)
\* (?:a|b|...) where each alternative is a pattern
Alt(as) == [t |-> "alt", as |-> as]
\* (?:a|b|...) over literal alternatives
Lits(ss) == Alt([i \in 1..Len(ss) |-> <<Lit(ss[i])>>])
\* (?:p)?
Opt(p) == Alt(<<p, <<>>>>)
\* (p) as group k
Cap(k, p) == [t |-> "cap", k |-> k, p |-> p]
Eos == [t |-> "eos"]        \* $
Wb == [t |-> "wb"]          \* \b

InClass(ch, c) == IF c.neg THEN ch \notin c.S ELSE ch \in c.S
IsWordAt(s, i) == i >= 1 /\ i <= Len(s) /\ At(s, i) \in WordSet
\* the first position from pos on whose character is not of class c
RunEnd(s, c, pos) ==
  Min({j \in pos..(Len(s) + 1) : j = Len(s) + 1 \/ ~InClass(At(s, j), c)})

NoMatch == [ok |-> FALSE]

RECURSIVE MatchAt(_, _, _, _)
RECURSIVE AltFrom(_, _, _, _, _, _)
\* the first of the alternatives as[a], as[a+1], ... that lets the rest match
AltFrom(as, a, rest, s, pos, caps) ==
  IF a > Len(as) THEN NoMatch
  ELSE LET r == MatchAt(as[a] \o rest, s, pos, caps)
       IN IF r.ok THEN r ELSE AltFrom(as, a + 1, rest, s, pos, caps)

MatchAt(todo, s, pos, caps) ==
  IF todo = <<>> THEN [ok |-> TRUE, end |-> pos, caps |-> caps]
  ELSE
    LET n == Head(todo)
        rest == Tail(todo)
    IN CASE n.t = "lit" ->
              IF pos + Len(n.s) - 1 <= Len(s) /\ SubSeq(s, pos, pos + Len(n.s) - 1) = n.s
              THEN MatchAt(rest, s, pos + Len(n.s), caps)
              ELSE NoMatch
         [] n.t = "rep" ->
              LET run == RunEnd(s, n.c, pos) - pos
                  top == IF run < n.hi THEN run ELSE n.hi
                  m == top - n.lo + 1
                  res == SubSeq([j \in 1..m |-> MatchAt(rest, s, pos + n.lo + j - 1, caps)], 1, m)
                  oks == {j \in 1..m : res[j].ok}
              IN IF oks = {} THEN NoMatch
                 ELSE res[IF n.g THEN Max(oks) ELSE Min(oks)]
         [] n.t = "alt" -> AltFrom(n.as, 1, rest, s, pos, caps)
         [] n.t = "cap" ->
              MatchAt(<<[t |-> "open", k |-> n.k]>> \o n.p \o <<[t |-> "close", k |-> n.k]>> \o rest,
                      s, pos, caps)
         [] n.t = "open" -> MatchAt(rest, s, pos, [caps EXCEPT ![n.k] = <<pos, 0>>])
         [] n.t = "close" ->
              MatchAt(rest, s, pos, [caps EXCEPT ![n.k] = <<caps[n.k][1], pos - 1, 1>>])
         [] n.t = "eos" ->
              IF pos = Len(s) + 1 \/ (pos = Len(s) /\ At(s, pos) = "\n")
              THEN MatchAt(rest, s, pos, caps)
              ELSE NoMatch
         [] n.t = "bos" -> IF pos = 1 THEN MatchAt(rest, s, pos, caps) ELSE NoMatch
         [] n.t = "wb" ->
              IF IsWordAt(s, pos - 1) # IsWordAt(s, pos)
              THEN MatchAt(rest, s, pos, caps)
              ELSE NoMatch

\* the highest group number of a pattern
RECURSIVE NGroups(_)
NGroups(p) ==
  Max({0} \cup {IF p[i].t = "cap" THEN Max({p[i].k, NGroups(p[i].p)})
                ELSE IF p[i].t = "alt"
                     THEN Max({0} \cup {NGroups(p[i].as[a]) : a \in 1..Len(p[i].as)})
                     ELSE 0 : i \in 1..Len(p)})

\* re.search(p, s) restricted to matches that start at from or later
SearchFrom(p, s, from) ==
  LET caps0 == [k \in 1..NGroups(p) |-> <<0, 0>>]
      res == [st \in from..(Len(s) + 1) |-> MatchAt(p, s, st, caps0)]
      oks == {st \in from..(Len(s) + 1) : res[st].ok}
  IN IF oks = {} THEN NoMatch
     ELSE [ok |-> TRUE, start |-> Min(oks), end |-> res[Min(oks)].end,
           caps |-> res[Min(oks)].caps]

\* re.search(p, s)
Search(p, s) == SearchFrom(p, s, 1)

\* whether group k took part in the match m (m.group(k) is not None)
HasGroup(m, k) == Len(m.caps[k]) = 3
\* m.group(k)
Group(s, m, k) == Slice(s, m.caps[k][1], m.caps[k][2])

\* re.findall(p, s) for a pattern without groups: the successive
\* non-overlapping matches, from left to right
RECURSIVE FindAllFrom(_, _, _)
FindAllFrom(p, s, from) ==
  IF from > Len(s) + 1 THEN <<>>
  ELSE LET m == SearchFrom(p, s, from)
       IN IF ~m.ok THEN <<>>
          ELSE <<Slice(s, m.start, m.end - 1)>>
               \o FindAllFrom(p, s, IF m.end > m.start THEN m.end ELSE m.end + 1)
FindAll(p, s) == FindAllFrom(p, s, 1)

----------------------------------------------------------------------------
(* The parser of pattern texts (re.compile).  It covers the syntax of the  *)
(* patterns of the source and of the fragments that questions put into     *)
(* str.contains: literals, escapes, classes with ranges, groups (capturing *)
(* and (?:...)), alternation, the quantifiers ? * + {m} {m,n} and their    *)
(* lazy forms on a character or class, ? on a group, and $ ^ \b.           *)

\* the printable characters in code order (the backquote, which no text
\* of the model holds, is left out)
Ascii ==
  " !\"#$%&'()*+,-./0123456789:;<=>?@ABCDEFGHIJKLMNOPQRSTUVWXYZ[\\]^_abcdefghijklmnopqrstuvwxyz{|}~"
Ord(ch) == CHOOSE i \in 1..Len(Ascii) : At(Ascii, i) = ch

\* the function f on 1..n as a tuple
Tab(f, n) == SubSeq(f, 1, n)

\* the number of consecutive backslashes that end at position i
BsRun(p, i) == i - Max({0} \cup {j \in 1..i : At(p, j) # "\\"})
\* the character at i is escaped by a backslash before it
Escaped(p, i) == i > 1 /\ BsRun(p, i - 1) % 2 = 1

\* the class an escape \c stands for, or the character itself
EscapeClass(ch) ==
  IF ch = "d" THEN D ELSE IF ch = "w" THEN W ELSE IF ch = "s" THEN Sp ELSE In({ch})

\* The pattern text p, scanned: for each position what the parser knows
\* about it.
\*   ch, esc    the character; it is escaped by a backslash before it
\*   cclose     for a [ that opens a class: the position of its ] (0: none)
\*   plain      the character is syntax or a literal outside of a class
\*   depth      the nesting depth of groups just before the position
\*   gclose     for a ( : the position of its ) (0: none)
\*   noncap     the ( opens a (?: group;  gnum: the number of a capturing (
\*   bclose     for a { that opens {m} {m,n} {m,}: the position of its }
\*   qchar      ? * + as an operator (not the ? of "(?:")
\*   start, end an atom starts here; where it ends
\*   quant      the quantifier that follows the atom: [some, lo, hi, g, end]
\*   literal    the atom is one literal character without a quantifier
\* The scan is made in steps; each step is given the record a of what is
\* known so far and adds its fields.
CharAt(a, i) == IF i >= 1 /\ i <= a.n THEN a.ch[i] ELSE ""
ScanChars(p) ==
  [n |-> Len(p),
   ch |-> Tab([i \in 1..Len(p) |-> At(p, i)], Len(p)),
   esc |-> Tab([i \in 1..Len(p) |-> Escaped(p, i)], Len(p))]
ScanClassOpen(a) ==
  a @@ [copen |-> Tab([i \in 1..a.n |-> a.ch[i] = "[" /\ ~a.esc[i]], a.n)]
ScanClassClose(a) ==
  a @@ [cclose |-> Tab([i \in 1..a.n |->
                     IF ~a.copen[i] THEN 0
                     ELSE Min({j \in (i + 2)..(a.n + 1) :
                                 j = a.n + 1 \/ (a.ch[j] = "]" /\ ~a.esc[j])}) % (a.n + 1)], a.n)]
ScanInClass(a) ==
  a @@ [inclass |-> Tab([i \in 1..a.n |->
                      \E o \in 1..(i - 1) :
                         a.copen[o] /\ (a.cclose[o] = 0 \/ i <= a.cclose[o])], a.n)]
ScanPlain(a) ==
  a @@ [plain |-> Tab([i \in 1..a.n |-> ~a.esc[i] /\ ~a.inclass[i]], a.n)]
ScanParens(a) ==
  a @@ [gopen |-> Tab([i \in 1..a.n |-> a.plain[i] /\ a.ch[i] = "("], a.n),
        gshut |-> Tab([i \in 1..a.n |-> a.plain[i] /\ a.ch[i] = ")"], a.n)]
ScanDepth(a) ==
  a @@ [depth |-> Tab([i \in 1..a.n |->
                    Cardinality({o \in 1..(i - 1) : a.gopen[o]})
                    - Cardinality({c \in 1..(i - 1) : a.gshut[c]})], a.n),
        noncap |-> Tab([i \in 1..a.n |->
                     a.gopen[i] /\ CharAt(a, i + 1) = "?" /\ CharAt(a, i + 2) = ":"], a.n)]
ScanGroups(a) ==
  a @@ [gclose |-> Tab([i \in 1..a.n |->
                     IF ~a.gopen[i] THEN 0
                     ELSE Min({c \in (i + 1)..(a.n + 1) :
                                 c = a.n + 1 \/ (a.gshut[c] /\ a.depth[c] = a.depth[i] + 1)})
                          % (a.n + 1)], a.n),
        gnum |-> Tab([i \in 1..a.n |->
                   1 + Cardinality({g \in 1..(i - 1) : a.gopen[g] /\ ~a.noncap[g]})], a.n)]
\* the bounds m and n of the text body of {m}, {m,n} or {m,}
BraceLo(body) ==
  IF Occurrences(body, ",") = {} THEN body ELSE Slice(body, 1, Min(Occurrences(body, ",")) - 1)
BraceHi(body) ==
  IF Occurrences(body, ",") = {} THEN body
  ELSE Slice(body, Min(Occurrences(body, ",")) + 1, Len(body))
BraceOf(body, j) ==
  IF Cardinality(Occurrences(body, ",")) <= 1 /\ IsDigits(BraceLo(body))
     /\ (BraceHi(body) = "" \/ IsDigits(BraceHi(body)))
  THEN [end |-> j, lo |-> IntOf(BraceLo(body)),
        hi |-> IF BraceHi(body) = "" THEN Inf ELSE IntOf(BraceHi(body))]
  ELSE [end |-> 0, lo |-> 0, hi |-> 0]
\* the first } after i (0: none)
BraceEnd(a, i) == Min({j \in (i + 1)..(a.n + 1) : j = a.n + 1 \/ a.ch[j] = "}"}) % (a.n + 1)
Brace(p, a, i) ==
  IF a.plain[i] /\ a.ch[i] = "{" /\ BraceEnd(a, i) # 0
  THEN BraceOf(Slice(p, i + 1, BraceEnd(a, i) - 1), BraceEnd(a, i))
  ELSE [end |-> 0, lo |-> 0, hi |-> 0]
ScanBraces(p, a) ==
  a @@ [brace |-> Tab([i \in 1..a.n |-> Brace(p, a, i)], a.n),
        qchar |-> Tab([i \in 1..a.n |->
                    /\ a.plain[i] /\ a.ch[i] \in {"?", "*", "+"}
                    /\ ~(a.ch[i] = "?" /\ i > 1 /\ a.gopen[i - 1])], a.n)]
ScanInBrace(a) ==
  a @@ [inbrace |-> Tab([k \in 1..a.n |->
                      \E i \in 1..k : a.brace[i].end # 0 /\ k <= a.brace[i].end], a.n)]
ScanAtoms(a) ==
  a @@ [start |-> Tab([i \in 1..a.n |->
                    /\ ~a.esc[i] /\ ~a.inclass[i] /\ ~a.qchar[i] /\ ~a.inbrace[i]
                    /\ a.ch[i] \notin {"|", ")"}
                    /\ ~\E o \in {i - 1, i - 2} : o >= 1 /\ a.noncap[o]], a.n),
        end |-> Tab([i \in 1..a.n |->
                  IF a.ch[i] = "(" THEN a.gclose[i]
                  ELSE IF a.ch[i] = "[" THEN a.cclose[i]
                  ELSE IF a.ch[i] = "\\" THEN i + 1
                  ELSE i], a.n)]
IsQChar(a, i) == i >= 1 /\ i <= a.n /\ a.qchar[i]
\* the quantifier whose operator ends at last; it is lazy when a ? follows
QuantAt(a, last, lo, hi) ==
  IF IsQChar(a, last + 1) /\ CharAt(a, last + 1) = "?"
  THEN [some |-> TRUE, lo |-> lo, hi |-> hi, g |-> FALSE, end |-> last + 1]
  ELSE [some |-> TRUE, lo |-> lo, hi |-> hi, g |-> TRUE, end |-> last]
\* the quantifier that follows an atom that ends at e
Quant(a, e) ==
  IF e + 1 <= a.n /\ a.brace[e + 1].end # 0
  THEN QuantAt(a, a.brace[e + 1].end, a.brace[e + 1].lo, a.brace[e + 1].hi)
  ELSE IF IsQChar(a, e + 1)
       THEN QuantAt(a, e + 1, IF a.ch[e + 1] = "+" THEN 1 ELSE 0,
                    IF a.ch[e + 1] = "?" THEN 1 ELSE Inf)
       ELSE [some |-> FALSE, lo |-> 1, hi |-> 1, g |-> TRUE, end |-> e]
ScanQuant(a) ==
  a @@ [quant |-> Tab([i \in 1..a.n |->
                    Quant(a, IF a.start[i] /\ a.end[i] # 0 THEN a.end[i] ELSE a.n)], a.n)]
ScanLiteral(a) ==
  a @@ [literal |-> Tab([i \in 1..a.n |->
                      /\ a.start[i] /\ a.ch[i] \notin {"(", "[", "$", "^", "."}
                      /\ (a.ch[i] = "\\" => CharAt(a, i + 1) \notin {"d", "w", "s", "b"})
                      /\ ~a.quant[i].some], a.n)]
Scan(p) ==
  ScanLiteral(ScanQuant(ScanAtoms(ScanInBrace(ScanBraces(p,
    ScanGroups(ScanDepth(ScanParens(ScanPlain(ScanInClass(ScanClassClose(
      ScanClassOpen(ScanChars(p)))))))))))))

\* - at k makes a range of its neighbours inside the class that spans o..c
RangeOp(a, o, c, k) ==
  /\ a.ch[k] = "-" /\ ~a.esc[k] /\ k - 1 > o /\ k + 1 < c
  /\ ~a.esc[k - 1] /\ a.ch[k - 1] # "\\" /\ a.ch[k + 1] # "\\"
\* the set of characters of the class [ ... ] that spans o..c
ClassSet(a, o, c) ==
  LET neg == a.ch[o + 1] = "^"
      first == IF neg THEN o + 2 ELSE o + 1
      Item(k) ==
        IF a.esc[k] THEN EscapeClass(a.ch[k]).S
        ELSE IF a.ch[k] = "\\" THEN {}
        ELSE IF RangeOp(a, o, c, k)
             THEN {At(Ascii, x) : x \in Ord(a.ch[k - 1])..Ord(a.ch[k + 1])}
        ELSE {a.ch[k]}
      S == UNION {Item(k) : k \in first..(c - 1)}
  IN IF neg THEN NotIn(S) ELSE In(S)

\* with re.IGNORECASE the text is matched in lower case: the class takes
\* the lower case of its letters too
FoldCase(c, icase) == IF icase THEN [c EXCEPT !.S = c.S \cup {LowerCh(x) : x \in c.S}] ELSE c
\* the class of the atom at i, which matches one character
CharClass(a, i, icase) ==
  FoldCase(IF a.ch[i] = "[" THEN ClassSet(a, i, a.cclose[i])
           ELSE IF a.ch[i] = "\\" THEN EscapeClass(a.ch[i + 1])
           ELSE IF a.ch[i] = "." THEN Dot
           ELSE In({a.ch[i]}), icase)
LiteralCh(a, i, icase) ==
  LET c == IF a.ch[i] = "\\" THEN a.ch[i + 1] ELSE a.ch[i]
  IN IF icase THEN LowerCh(c) ELSE c

\* the pattern of the span lo..hi, whose atoms lie at depth d
RECURSIVE ParseSpan(_, _, _, _, _)
ParseSpan(a, lo, hi, d, icase) ==
  LET bars == {i \in lo..hi : a.plain[i] /\ a.ch[i] = "|" /\ a.depth[i] = d}
      \* the alternatives lie between the bars
      cuts == {lo - 1} \cup bars \cup {hi + 1}
      Pieces == SelectIdx(hi + 1, LAMBDA i : i \in bars \/ i = hi + 1)
      From(k) == Max({c \in cuts : c < Pieces[k]}) + 1
      IsStart(i) == a.start[i] /\ a.depth[i] = d
      \* a run of literals gives one node, at its first literal
      Prev(i) == Max({lo - 1} \cup {j \in lo..(i - 1) : IsStart(j)})
      RunStart(i) == a.literal[i] /\ (Prev(i) < lo \/ ~a.literal[Prev(i)])
      RunLast(i) == Min({hi + 1} \cup {j \in (i + 1)..hi : IsStart(j) /\ ~a.literal[j]}) - 1
      Heads == SelectIdx(hi, LAMBDA i : i >= lo /\ IsStart(i) /\ (a.literal[i] => RunStart(i)))
      Node(i) ==
        LET e == a.end[i]
            q == a.quant[i]
            inner == IF a.noncap[i] THEN i + 3 ELSE i + 1
            body == ParseSpan(a, inner, e - 1, d + 1, icase)
            group == IF a.noncap[i] THEN Alt(<<body>>) ELSE Cap(a.gnum[i], body)
        IN IF a.literal[i]
           THEN Lit(Cat([x \in i..RunLast(i) |->
                           IF IsStart(x) THEN LiteralCh(a, x, icase) ELSE ""], i, RunLast(i)))
           ELSE IF a.ch[i] = "(" THEN
                  (IF ~q.some THEN group
                   ELSE IF q.g THEN Alt(<<<<group>>, <<>>>>) ELSE Alt(<<<<>>, <<group>>>>))
           ELSE IF a.ch[i] = "$" THEN Eos
           ELSE IF a.ch[i] = "^" THEN [t |-> "bos"]
           ELSE IF a.ch[i] = "\\" /\ a.ch[i + 1] = "b" THEN Wb
           ELSE Rep(CharClass(a, i, icase), q.lo, q.hi, q.g)
  IN IF bars # {}
     THEN <<Alt([k \in 1..Len(Pieces) |-> ParseSpan(a, From(k), Pieces[k] - 1, d, icase)])>>
     ELSE [k \in 1..Len(Heads) |-> Node(Heads[k])]

\* the message of re.error for a pattern that does not compile ("": it compiles)
ScanError(a) ==
  LET n == a.n
      nothing == {i \in 1..n : a.qchar[i] /\ (i = 1 \/ a.gopen[i - 1]
                                              \/ (a.plain[i - 1] /\ a.ch[i - 1] = "|"))}
      multiple == {i \in 2..n : a.qchar[i] /\ a.qchar[i - 1]
                                /\ (a.ch[i] # "?" \/ IsQChar(a, i - 2))}
      unbalanced == {c \in 1..n : a.gshut[c] /\ a.depth[c] = 0}
      unclosed == {o \in 1..n : a.gopen[o] /\ a.gclose[o] = 0}
      badclass == {o \in 1..n : a.copen[o] /\ ~a.inclass[o] /\ a.cclose[o] = 0}
      endbs == {i \in {n} : n > 0 /\ a.ch[i] = "\\" /\ ~a.esc[i]}
      early == nothing \cup multiple \cup unbalanced \cup badclass \cup endbs
      at == Min(early)
  IN IF early # {} THEN
       (IF at \in nothing THEN "nothing to repeat at position " \o DecStr(at - 1)
        ELSE IF at \in multiple THEN "multiple repeat at position " \o DecStr(at - 1)
        ELSE IF at \in unbalanced THEN "unbalanced parenthesis at position " \o DecStr(at - 1)
        ELSE IF at \in badclass THEN "unterminated character set at position " \o DecStr(at - 1)
        ELSE "bad escape (end of pattern) at position " \o DecStr(at - 1))
     ELSE IF unclosed # {}
          THEN "missing ), unterminated subpattern at position " \o DecStr(Max(unclosed) - 1)
          ELSE ""
CompileError(p) == ScanError(Scan(p))

\* re.compile(p), with re.IGNORECASE when icase
\* the pattern of a scanned text
Parse(a, icase) == ParseSpan(a, 1, a.n, 0, icase)
Compile(p, icase) == Parse(Scan(p), icase)

\* Invoke(f, a): the call of the function f of the program, of re or of
\* pandas with the arguments a.  The calls that the question router makes of
\* re.search, re.findall, re.sub and Series.str.contains, and the call of
\* the router itself, are written with it.
RECURSIVE Invoke(_, _)



----------------------------------------------------------------------------
(* Tables (pandas DataFrame).  A table has a set of column names and a     *)
(* sequence of rows; a row maps every column to a cell.  A cell is <<>>    *)
(* (NaN, NaT, None) or <<v>>: v is a text, except in the columns Year,     *)
(* Month, Quarter, Quantity (integers), Total Price and Unit Price after   *)
(* cleaning (cents) and Purchase Date after parsing ([y, m, d]).           *)
(* A record of the store maps the field names it carries to cells; its     *)
(* texts are those of the CSV export (prices such as "$1,234.50", dates    *)
(* such as "08/27/2013") and prices carry at most two decimals.            *)

NaN == <<>>
Some(v) == <<v>>
IsNa(c) == c = <<>>
Val(c) == c[1]

\* what a step yields: a value, or the exception it raises (its message)
Ok(v) == [err |-> FALSE, val |-> v]
Err(m) == [err |-> TRUE, msg |-> m]
\* str(KeyError(col))
KeyError(col) == "'" \o col \o "'"

EmptyDataFrame == [cols |-> {}, rows |-> <<>>]        \* pd.DataFrame()
\* df.empty
IsEmpty(df) == df.cols = {} \/ Len(df.rows) = 0

\* pd.DataFrame(data) for a list of dicts: the columns are the union of
\* the keys, a key that a record lacks is NaN in its row
DataFrame(data) ==
  LET cols == UNION {DOMAIN data[i] : i \in 1..Len(data)}
  IN [cols |-> cols,
      rows |-> [i \in 1..Len(data) |->
                  [c \in cols |-> IF c \in DOMAIN data[i] THEN data[i][c] ELSE NaN]]]

\* df[mask]
Filter(df, Keep(_)) ==
  LET at == SelectIdx(Len(df.rows), LAMBDA i : Keep(df.rows[i]))
  IN [df EXCEPT !.rows = [k \in 1..Len(at) |-> df.rows[at[k]]]]

\* df[col] = f(row) for every row
Assign(df, col, F(_)) ==
  [cols |-> df.cols \cup {col},
   rows |-> [i \in 1..Len(df.rows) |->
               [c \in df.cols \cup {col} |-> IF c = col THEN F(df.rows[i]) ELSE df.rows[i][c]]]]

\* series.astype(str) on one cell: NaN becomes the text "nan"
AsStr(c) == IF IsNa(c) THEN "nan" ELSE Val(c)

\* s.replace(ch, "") for a one-character ch
Remove(s, ch) ==
  Cat([i \in 1..Len(s) |-> IF At(s, i) = ch THEN "" ELSE At(s, i)], 1, Len(s))

\* pd.to_numeric(text, errors='coerce') in cents: digits with an optional
\* point and at most two decimals; anything else (the text "nan" as well)
\* is NaN
ToNumeric(s) ==
  LET dots == Occurrences(s, ".")
      whole == IF dots = {} THEN s ELSE Slice(s, 1, Min(dots) - 1)
      frac == IF dots = {} THEN "" ELSE Slice(s, Min(dots) + 1, Len(s))
  IN IF Cardinality(dots) <= 1 /\ IsDigits(whole) /\ Len(frac) <= 2
        /\ (frac = "" \/ IsDigits(frac))
     THEN Some(100 * IntOf(whole)
               + (IF Len(frac) = 2 THEN IntOf(frac)
                  ELSE IF Len(frac) = 1 THEN 10 * IntOf(frac) ELSE 0))
     ELSE NaN

\* the cleaning of a price column: astype(str), '$' and ',' removed, to_numeric
CleanPrice(c) == ToNumeric(Remove(Remove(AsStr(c), "$"), ","))

IsLeap(y) == (y % 4 = 0 /\ y % 100 # 0) \/ y % 400 = 0
DaysIn(y, m) ==
  IF m = 2 THEN (IF IsLeap(y) THEN 29 ELSE 28)
  ELSE IF m \in {4, 6, 9, 11} THEN 30 ELSE 31

\* pd.to_datetime(cell, format="%m/%d/%Y", errors='coerce'): month and day
\* of one or two digits, a year of four digits, a date of the calendar;
\* anything else is NaT
ToDatetime(c) ==
  IF IsNa(c) THEN NaN
  ELSE
    LET s == Val(c)
        sl == Occurrences(s, "/")
        a == Min(sl)
        b == Max(sl)
        mm == Slice(s, 1, a - 1)
        dd == Slice(s, a + 1, b - 1)
        yy == Slice(s, b + 1, Len(s))
    IN IF Cardinality(sl) = 2 /\ IsDigits(mm) /\ Len(mm) <= 2 /\ IsDigits(dd) /\ Len(dd) <= 2
          /\ IsDigits(yy) /\ Len(yy) = 4
          /\ IntOf(mm) \in 1..12 /\ IntOf(dd) >= 1 /\ IntOf(dd) <= DaysIn(IntOf(yy), IntOf(mm))
       THEN Some([y |-> IntOf(yy), m |-> IntOf(mm), d |-> IntOf(dd)])
       ELSE NaN

FirstValidYear == 2012
LastValidYear == 2015
\* the window of line 74 closed one year later
valid_years_to_2016 == FirstValidYear..(LastValidYear + 1)
valid_years == FirstValidYear..LastValidYear

\* a quarter counted from the month without making the month start at 0
QuarterOfMonthFromOne(d) == (d.m \div 3) + 1

\* series.dt.quarter of line 80, for one date
QuarterOf(d) == ((d.m - 1) \div 3) + 1

\* the columns the cleaning reads, in the order in which it reads them
CleanedColumns ==
  <<"Purchase Date", "Total Price", "Unit Price", "Supplier Name",
    "Supplier Zip Code", "Supplier Qualifications", "CalCard">>

\* lines 66-93 of load_procurement_data: the table made of the fetched
\* records, or the KeyError of the first column the cleaning reads and no
\* record carries
CleanData(data) ==
  LET df0 == DataFrame(data)
      df1 == Assign(df0, "Purchase Date", LAMBDA r : ToDatetime(r["Purchase Date"]))
      df2 == Filter(df1, LAMBDA r : ~IsNa(r["Purchase Date"])
                                     /\ Val(r["Purchase Date"]).y \in valid_years)
      df3 == Assign(df2, "Year", LAMBDA r : Some(Val(r["Purchase Date"]).y))
      df4 == Assign(df3, "Month", LAMBDA r : Some(Val(r["Purchase Date"]).m))
      df5 == Assign(df4, "Quarter", LAMBDA r : Some(QuarterOf(Val(r["Purchase Date"]))))
      df6 == Assign(df5, "Total Price", LAMBDA r : CleanPrice(r["Total Price"]))
      df7 == Assign(df6, "Unit Price", LAMBDA r : CleanPrice(r["Unit Price"]))
      df8 == Assign(df7, "Supplier Name", LAMBDA r : Some(Lower(Strip(AsStr(r["Supplier Name"])))))
      df9 == Assign(df8, "Supplier Zip Code", LAMBDA r : Some(Strip(AsStr(r["Supplier Zip Code"]))))
      df10 == Assign(df9, "Supplier Qualifications",
                     LAMBDA r : Some(Upper(Strip(AsStr(r["Supplier Qualifications"])))))
      df11 == Assign(df10, "CalCard", LAMBDA r : Some(Strip(Upper(AsStr(r["CalCard"])))))
      miss == {i \in 1..Len(CleanedColumns) : CleanedColumns[i] \notin df0.cols}
  IN IF IsEmpty(df0) THEN Ok(df0)
     ELSE IF miss # {} THEN Err(KeyError(CleanedColumns[Min(miss)]))
     ELSE Ok(df11)

\* get_db_connection() that gives the collection whatever the server does
get_db_connection_unchecked(up) == "collection"

\* get_db_connection(): the collection, or None when the server does not
\* answer (the exception of MongoClient is caught there)
get_db_connection(up) == IF up THEN "collection" ELSE "None"

\* list(collection.find({}, {'_id': 0})): the records, or the exception of
\* the driver when the read fails
Find(data, f) ==
  IF f = "raises" THEN Err("find failed") ELSE Ok(data)

\* the try block of load_procurement_data (lines 63-93);  Clean is lines
\* 66-93, CleanData or a table of its values
LoadTry(data, up, f, Clean(_)) ==
  LET found == Find(data, f)
  IN IF get_db_connection(up) = "None" THEN Ok(EmptyDataFrame)
     ELSE IF found.err THEN found
     ELSE Clean(found.val)

\* the body of load_procurement_data, run on a cache miss: the except
\* clause of lines 94-96 turns every exception into an empty table
LoadBody(data, up, f, Clean(_)) ==
  LET tried == LoadTry(data, up, f, Clean)
  IN IF tried.err THEN Ok(EmptyDataFrame) ELSE tried
\* the body with lines 66-93 as they are
Load(data, up, f) == Invoke("load_procurement_data", <<data, up, f>>)

----------------------------------------------------------------------------
(* The records in the store: rows of the CSV export that                   *)
(* import_csv_to_mongo.py inserts.                                         *)

\* the fields of a record other than those an order is told by
OtherFields ==
  [f \in {"Creation Date", "Fiscal Year", "LPA Number", "Purchase Order Number",
          "Requisition Number", "Acquisition Type", "Sub-Acquisition Type",
          "Acquisition Method", "Sub-Acquisition Method", "Department Name",
          "Supplier Code", "Supplier Qualifications", "Supplier Zip Code", "CalCard",
          "Item Description", "Classification Codes", "Normalized UNSPSC",
          "Commodity Title", "Class", "Class Title", "Family", "Family Title",
          "Segment", "Segment Title", "Location"} |->
     CASE f = "Creation Date" -> Some("01/02/2014")
       [] f = "Fiscal Year" -> Some("2013-2014")
       [] f = "LPA Number" -> NaN
       [] f = "Purchase Order Number" -> Some("REQ0011118")
       [] f = "Requisition Number" -> NaN
       [] f = "Acquisition Type" -> Some("NON-IT Goods")
       [] f = "Sub-Acquisition Type" -> NaN
       [] f = "Acquisition Method" -> Some("Informal Competitive")
       [] f = "Sub-Acquisition Method" -> NaN
       [] f = "Department Name" -> Some("Consumer Affairs, Department of")
       [] f = "Supplier Code" -> Some("1740272")
       [] f = "Supplier Qualifications" -> Some("CA-SB")
       [] f = "Supplier Zip Code" -> Some("95814")
       [] f = "CalCard" -> Some("NO")
       [] f = "Item Description" -> Some("Office supplies")
       [] f = "Classification Codes" -> Some("14111507")
       [] f = "Normalized UNSPSC" -> Some("14111507")
       [] f = "Commodity Title" -> Some("Printer or copier paper")
       [] f = "Class" -> Some("14111500")
       [] f = "Class Title" -> Some("Printing and writing paper")
       [] f = "Family" -> Some("14110000")
       [] f = "Family Title" -> Some("Paper products")
       [] f = "Segment" -> Some("14000000")
       [] f = "Segment Title" -> Some("Paper Materials and Products")
       [] f = "Location" -> Some("95814")]

\* one record: an order of one piece of item from supplier at the price
\* total, bought on the day date
Order(supplier, item, total, date) ==
  [f \in DOMAIN OtherFields \cup {"Supplier Name", "Item Name", "Quantity", "Unit Price",
                                  "Total Price", "Purchase Date"} |->
     CASE f = "Supplier Name" -> Some(supplier)
       [] f = "Item Name" -> Some(item)
       [] f = "Quantity" -> Some(1)
       [] f = "Unit Price" -> Some(total)
       [] f = "Total Price" -> Some(total)
       [] f = "Purchase Date" -> Some(date)
       [] OTHER -> OtherFields[f]]

\* the record r without the field f
Without(r, f) == [g \in DOMAIN r \ {f} |-> r[g]]

\* the record r with the requisition number req and the order number po
Numbered(r, req, po) ==
  [r EXCEPT !["Requisition Number"] = Some(req), !["Purchase Order Number"] = Some(po)]

\* the contents the store may have
Stores ==
  << \* three orders, two of 2014 and one of 2013
     << Order("Acme", "Paper", "$100.00", "03/15/2014"),
        Order("Acme", "Pens", "$50.00", "06/01/2014"),
        Order("Globex", "Paper", "$200.00", "11/20/2013") >>,
     \* two suppliers of equal spend, an order of 2011 and one without a day
     << Order("Zeta", "Toner", "$150.00", "01/10/2014"),
        Order("Acme", "Paper", "$100.00", "02/11/2014"),
        Order("Initech", "Desks", "$75.00", "06/30/2011"),
        Order("Acme", "Pens", "$50.00", "05/20/2013"),
        Order("Globex", "Chairs", "$1,200.50", "07/04/2015"),
        Order("Hooli", "Lamps", "$20.00", "2014") >>,
     \* no record at all
     << >>,
     \* records of years that the loader drops
     << Order("Initech", "Desks", "$75.00", "06/30/2011"),
        Order("Initech", "Desks", "$75.00", "01/05/2016") >>,
     \* records without the field CalCard
     << Without(Order("Acme", "Paper", "$100.00", "03/15/2014"), "CalCard") >>,
     \* records without the field Item Name
     << Without(Order("Acme", "Paper", "$100.00", "03/15/2014"), "Item Name"),
        Without(Order("Globex", "Paper", "$200.00", "11/20/2013"), "Item Name") >>,
     \* eleven orders of eleven suppliers: one more than the shortest list
     \* that a rule shows; the order number of the first is the requisition
     \* number of the second and a part of that of the third
     << Order("Alpha", "Paper", "$11.00", "01/05/2012"),
        Numbered(Order("Bravo", "Pens", "$12.00", "02/06/2012"), "REQ0011118", "4500112233"),
        Numbered(Order("Charlie", "Ink", "$13.00", "03/07/2012"), "REQ00111189", "4500112234"),
        Order("Delta", "Tape", "$14.00", "04/08/2013"),
        Order("Echo", "Glue", "$15.00", "05/09/2013"),
        Order("Foxtrot", "Clips", "$16.00", "06/10/2013"),
        Order("Golf", "Pads", "$17.00", "07/11/2014"),
        Order("Hotel", "Files", "$18.00", "08/12/2014"),
        Order("India", "Desks", "$19.00", "09/13/2014"),
        Order("Juliett", "Lamps", "$20.00", "10/14/2015"),
        Order("Kilo", "Chairs", "$21.00", "11/15/2015") >> >>

\* CleanData of the contents of Stores, computed once
Cleaned == Tab([si \in 1..Len(Stores) |-> CleanData(Stores[si])], Len(Stores))

\* CleanData(data), read in Cleaned where it is there
CleanDataOf(data) ==
  LET at == {si \in 1..Len(Stores) : Stores[si] = data}
  IN IF at # {} THEN Cleaned[CHOOSE si \in at : TRUE] ELSE CleanData(data)

----------------------------------------------------------------------------
(* Texts the handlers build.                                               *)

\* sep.join(parts)
Join(parts, sep) ==
  Cat([i \in 1..Len(parts) |-> IF i = 1 THEN parts[i] ELSE sep \o parts[i]], 1, Len(parts))

Pad2(n) == IF n < 10 THEN "0" \o DecStr(n) ELSE DecStr(n)
\* f"{n:,}" for a natural number
RECURSIVE Commas(_)
Commas(n) ==
  IF n < 1000 THEN DecStr(n)
  ELSE LET r == n % 1000
       IN Commas(n \div 1000) \o "," \o (IF r < 10 THEN "00" ELSE IF r < 100 THEN "0" ELSE "")
          \o DecStr(r)
\* f"{x:,.2f}" for an amount of cents
Money(cents) == Commas(cents \div 100) \o "." \o Pad2(cents % 100)
\* f"{cell:,.2f}" for a cell of a price column: NaN prints as "nan"
MoneyCell(c) == IF IsNa(c) THEN "nan" ELSE Money(Val(c))
\* f"{cell}" for a cell of a text column
TextCell(c) == IF IsNa(c) THEN "nan" ELSE Val(c)
\* date.strftime('%Y-%m-%d')
IsoDate(d) == DecStr(d.y) \o "-" \o Pad2(d.m) \o "-" \o Pad2(d.d)

\* a < b for texts, in the order of Python's str (by character code)
StrLess(a, b) ==
  LET n == Min({Len(a), Len(b)})
      diff == {i \in 1..n : At(a, i) # At(b, i)}
  IN IF diff = {} THEN Len(a) < Len(b)
     ELSE Ord(At(a, Min(diff))) < Ord(At(b, Min(diff)))

\* s.split(sep)[1]: what lies between the first and the second sep
\* ([err]: there is no sep in s, IndexError)
SplitSecond(s, sep) ==
  LET occ == Occurrences(s, sep)
      a == Min(occ)
      later == {i \in occ : i >= a + Len(sep)}
      b == IF later = {} THEN Len(s) + 1 ELSE Min(later)
  IN IF occ = {} THEN [err |-> TRUE, msg |-> "list index out of range"]
     ELSE [err |-> FALSE, val |-> Slice(s, a + Len(sep), b - 1)]

----------------------------------------------------------------------------
(* What a step of a handler yields: a value, or the exception it raises.   *)

AccessorError == "Can only use .str accessor with string values!"
MaskError == "Cannot mask with non-boolean array containing NA / NaN values"
NoneGroupError == "'NoneType' object has no attribute 'group'"
IlocError == "single positional indexer is out-of-bounds"

\* df[col]: the cells of the column, row by row
Column(df, col) ==
  IF col \in df.cols THEN Ok([i \in 1..Len(df.rows) |-> df.rows[i][col]])
  ELSE Err(KeyError(col))

\* the first of the columns cs that df lacks ("": it has all of them)
Missing(df, cs) ==
  LET miss == {i \in 1..Len(cs) : cs[i] \notin df.cols}
  IN IF miss = {} THEN "" ELSE cs[Min(miss)]

\* series.str.contains(pat, case=.., na=..): one Some(TRUE/FALSE) or NaN per
\* row.  astype: the series went through astype(str) first;  Pre: what
\* .str.upper() or the like made of each text;  icase: case=False;
\* nafalse: na=False.  pat is a regular expression.
str_contains(texts, pat, icase, nafalse) ==
  LET a == Scan(pat)
      re == Parse(a, icase)
  IN IF ScanError(a) # "" THEN Err(ScanError(a))
     ELSE Ok([i \in 1..Len(texts) |->
                IF IsNa(texts[i]) THEN (IF nafalse THEN Some(FALSE) ELSE NaN)
                ELSE Some(Search(re, IF icase THEN Lower(Val(texts[i]))
                                     ELSE Val(texts[i])).ok)])
\* df[col].str.contains(pat, ...): the accessor first, then the call on the
\* texts of the column
StrContains(df, col, astype, Pre(_), pat, icase, nafalse) ==
  IF col \notin df.cols THEN Err(KeyError(col))
  ELSE IF ~astype /\ \A i \in 1..Len(df.rows) : IsNa(df.rows[i][col]) THEN Err(AccessorError)
  ELSE Invoke("str.contains",
            <<[i \in 1..Len(df.rows) |->
                 IF IsNa(df.rows[i][col]) /\ ~astype THEN NaN
                 ELSE Some(Pre(IF astype THEN AsStr(df.rows[i][col])
                               ELSE Val(df.rows[i][col])))],
              pat, icase, nafalse>>)

Same(s) == s

\* series == v, row by row (NaN equals nothing)
Equals(df, col, v) ==
  IF col \notin df.cols THEN Err(KeyError(col))
  ELSE Ok([i \in 1..Len(df.rows) |->
             Some(~IsNa(df.rows[i][col]) /\ Val(df.rows[i][col]) = v)])

\* m1 & m2 and m1 | m2: a NaN on either side gives False
MaskAnd(m1, m2) ==
  [i \in 1..Len(m1) |-> Some(~IsNa(m1[i]) /\ ~IsNa(m2[i]) /\ Val(m1[i]) /\ Val(m2[i]))]
MaskOr(m1, m2) ==
  [i \in 1..Len(m1) |-> Some(~IsNa(m1[i]) /\ ~IsNa(m2[i]) /\ (Val(m1[i]) \/ Val(m2[i])))]

\* df[mask]
Select(df, mask) ==
  IF \E i \in 1..Len(mask) : IsNa(mask[i]) THEN Err(MaskError)
  ELSE LET at == SelectIdx(Len(mask), LAMBDA i : Val(mask[i]))
       IN Ok([df EXCEPT !.rows = [k \in 1..Len(at) |-> df.rows[at[k]]]])

\* df.head(n)
HeadRows(df, n) == [df EXCEPT !.rows = SubSeq(df.rows, 1, Min({n, Len(df.rows)}))]

\* series.sum() of a numeric column: NaN cells are skipped
RECURSIVE SumCells(_, _)
SumCells(cells, n) ==
  IF n = 0 THEN 0
  ELSE SumCells(cells, n - 1) + (IF IsNa(cells[n]) THEN 0 ELSE Val(cells[n]))
Sum(df, col) == SumCells([i \in 1..Len(df.rows) |-> df.rows[i][col]], Len(df.rows))

\* series.unique() without NaN handling: the values in order of first appearance
Unique(cells) ==
  LET at == SelectIdx(Len(cells), LAMBDA i : \A j \in 1..(i - 1) : cells[j] # cells[i])
  IN [k \in 1..Len(at) |-> cells[at[k]]]

\* the texts of S in ascending order
Sorted(S) ==
  LET Rank(s) == Cardinality({x \in S : StrLess(x, s)})
  IN [k \in 1..Cardinality(S) |-> CHOOSE s \in S : Rank(s) = k - 1]

\* df.groupby(key)[col].sum(): one entry per value of key, in ascending
\* order of the key; rows whose key is NaN are left out
GroupSum(df, key, col) ==
  LET keys == Sorted({Val(df.rows[i][key]) : i \in {j \in 1..Len(df.rows) : ~IsNa(df.rows[j][key])}})
  IN [k \in 1..Len(keys) |->
        [key |-> keys[k],
         sum |-> SumCells([i \in 1..Len(df.rows) |->
                             IF df.rows[i][key] = Some(keys[k]) THEN df.rows[i][col] ELSE NaN],
                          Len(df.rows))]]

\* series.nlargest(n) of the entries s (records with a field sum): the n
\* largest in descending order; entries of equal sum keep the order they
\* have in s
NLargest(s, n) ==
  LET Before(i, j) == s[i].sum > s[j].sum \/ (s[i].sum = s[j].sum /\ i < j)
      Rank(i) == Cardinality({j \in 1..Len(s) : Before(j, i)})
      m == IF n <= 0 THEN 0 ELSE Min({n, Len(s)})
  IN [k \in 1..m |-> s[CHOOSE i \in 1..Len(s) : Rank(i) = k - 1]]

\* series.value_counts(): the values with their counts, most frequent
\* first, values of equal count in order of first appearance; NaN left out
ValueCounts(cells) ==
  LET vals == Unique(SelectSeq(cells, LAMBDA c : ~IsNa(c)))
      Count(v) == Cardinality({i \in 1..Len(cells) : cells[i] = v})
      counted == [k \in 1..Len(vals) |-> [key |-> Val(vals[k]), sum |-> Count(vals[k])]]
  IN NLargest(counted, Len(vals))

----------------------------------------------------------------------------
(* The questions of the model, and the searches of the patterns of         *)
(* handle_question in them, computed once.                                 *)

\* the patterns that handle_question hands to re.search, with their
\* re.IGNORECASE flag
Patterns ==
  <<
    <<"(?:zip code|zip|location)\\s*(\\d{5})", FALSE>>,
    <<"the (.+?) acquisition method", FALSE>>,
    <<"in (\\d{4})", FALSE>>,
    <<"top (\\d+)", FALSE>>,
    <<"supplier code (\\d+)", FALSE>>,
    <<"fiscal year (\\d{4})", FALSE>>,
    <<"for (.+?)\\??$", FALSE>>,
    <<"method (.+?)\\??$", FALSE>>,
    <<"the (.+?)\\??$", FALSE>>,
    <<"items of (\\w+) (?:bought|purchased) in (\\d{4})", FALSE>>,
    <<"department (.+?) in fiscal year (\\d{4})", FALSE>>,
    <<"location (\\d+)", FALSE>>,
    <<"item (.+?) in", FALSE>>,
    <<"purchase order (.+?)$", FALSE>>,
    <<"total spend by (.+?) in (?:the )?fiscal year (\\d{4})", FALSE>>,
    <<"how many items? (?:were|was) purchased from (.+?) using lpa number ([A-Za-z0-9\\-]+)", FALSE>>,
    <<"(\\d{4})", FALSE>>,
    <<"purchase order number (?:for|of) (?:the )?requisition (\\w+)", FALSE>>,
    <<"total orders from (.+?) (?:in|during) (.+)", FALSE>>,
    <<"(?:total|how many) quantity of (.+?) (?:purchased|bought|ordered) (?:in|during) (\\d{4})", FALSE>>,
    <<"(?:total|how many) (.+?) (?:were|was) (?:purchased|bought|ordered) (?:in|during) (\\d{4})", FALSE>>,
    <<"how many items? (?:were|was) ordered? in (\\d{4})", FALSE>>,
    <<"\\d{4}", FALSE>>,
    <<"how many (.+?) (?:were|was) (?:purchased|bought|ordered) (?:in|during) (\\d{4})", FALSE>>,
    <<"(?:total|how many) orders? (?:from|of|for) (.+?) (?:in|during) (\\d{4})", FALSE>>,
    <<"total (?:price|spend|spending|amount) (?:of|for) ([\\w\\s\\-]+) (?:purchased|bought)? (?:in|for|during) (\\d{4})", FALSE>>,
    <<"(?:total|how much) (?:calcard|cal card) (?:spend|spending|amount) (?:in|for|during) (\\d{4})", FALSE>>,
    <<"(?:what was|what's) (?:the)? (?:calcard|cal card) (?:spend|spending|amount) (?:in|for|during) (\\d{4})", FALSE>>,
    <<"(?:requisition|req|purchase order|po)[\\s\\-]?(?:number|no|#)?[\\s\\-]*([a-z0-9\\-\\.]+)", TRUE>>,
    <<"orders? between (\\w+)\\s+(\\d{4}) and (\\w+)\\s+(\\d{4})", FALSE>>,
    <<"(?:list|show|all) suppliers? (?:from|in|with) zip(?: code)?\\s*(\\d{5})", FALSE>>,
    <<"suppliers? with ([\\w\\-]+) qualification", FALSE>>,
    <<"total (?:price|spend|spending|amount) (?:of|for) ([\\w\\s\\-]+) (?:in|for|during) (\\d{4})", FALSE>>,
    <<"how much (?:was|did) (?:we|they) spend on ([\\w\\s\\-]+) (?:in|for|during) (\\d{4})", FALSE>>,
    <<"(?:list|show|name|all|give me) (?:the|of|all)? ?suppliers?", FALSE>>,
    <<"total orders? (?:of|from|by|for) ([\\w\\s\\-]+)", FALSE>>,
    <<"total orders? (?:of|from|by|for) ([\\w\\s\\-]+) (?:in|for|during) (\\d{4})", FALSE>>,
    <<"(?:on|made on|placed on|received on)? ?(\\w+)\\s+(\\d{1,2}),?\\s+(\\d{4})", FALSE>>,
    <<"(?:in|for|from) (\\w+) (\\d{4})", FALSE>>,
    <<"(?:how many|number of)? ?orders (?:were )?(?:placed|made|received)? ?(?:in|during|for)? ?(\\d{4})", FALSE>>,
    <<"quarter.*highest.*(?:in|for)? ?(\\d{4})", FALSE>>,
    <<"orders? from suppliers? in zip (\\d{5})", FALSE>>,
    <<"orders? delivered to (\\d{5})", FALSE>>,
    <<"classification code (\\d+)", FALSE>>,
    <<"(orders|purchases) (under|in|from|for) (.+?) (category|item|group)?\\??$", FALSE>>,
    <<"how many orders did ([\\w\\s&\\-\\.]+) (make|place|have|do)\\??", FALSE>>,
    <<"total (spend|spending|expenditure|amount) by ([\\w\\s&\\-\\.]+)", FALSE>>,
    <<"orders (?:using|used|with) ([\\w\\s\\/\\-]+)", FALSE>>,
    <<"(?:total|overall) spending in (\\d{4})", FALSE>>,
    <<"average monthly spending(?: in| of)? ([\\d,\\sand]+)", FALSE>>,
    <<"total spending on ([\\w\\s&\\-\\.]+)", FALSE>>,
    <<"name of (the )?supplier with (the )?(most|highest|largest|greatest|max(imum)?|biggest|top) number of orders", FALSE>>,
    <<"which supplier had (the )?(most|highest|largest|greatest|max(imum)?|biggest|top) number of orders", FALSE>>,
    <<"who (is|was) (the )?supplier with (the )?(most|highest|largest|greatest|max(imum)?|biggest|top) number of orders", FALSE>>,
    <<"supplier with (the )?(most|highest|largest|greatest|max(imum)?|biggest|top) number of orders", FALSE>>,
    <<"(what|which) (items|item) (were|was)? ?(bought|purchased|ordered)? ?(the )?most", FALSE>>,
    <<"how much (did we|was)? ?(spend|spent) on ([\\w\\s&\\-\\.]+)", FALSE>>,
    <<"orders in (the )?([\\w\\s&\\-\\.]+) segment", FALSE>>,
    <<"who (was|is) (the )?(most expensive|highest spending|most spending|greatest spending|largest spending) supplier", FALSE>>,
    <<"orders? (?:from|by|with|placed with|made by) ([\\w\\s&\\-\\.]+) in (\\d{4})", FALSE>>,
    <<"how many orders (from|by|with|placed with|made by) ([\\w\\s&\\-\\.]+)\\??", FALSE>>,
    <<"(top|show|list|give me|tell me|what are|which are)? ?(\\d+)? ?(most|top)? ?(bought|purchased|ordered)? ?items", FALSE>>
  >>

\* the questions the callers ask
Questions ==
  <<"what is the weather today?",
    "How many orders were placed in 2014?",
    "orders in 2011",
    "orders in 2014",
    "how many orders were placed in 2016?",
    "total spending on paper in 2014",
    "top 2 suppliers by total spend",
    "top 1 suppliers by total spend",
    "top 5 suppliers by total spend in 2014",
    "normalized unspsc for",
    "total price of paper purchased in 2014",
    "how many purchases used the informal competitive acquisition method for orders delivered to sacramento?",
    "which acquisition type had the highest spend in 2014 by total spend per supplier code?",
    "how many purchases used the informal competitive acquisition method in 2014?",
    "which acquisition type had the highest spend in 2014?",
    "which supplier had the most orders?",
    "What items were bought the most?",
    "purchase order number for requisition abc",
    "Orders from Acme in 2014?",
    "How many orders did Acme make?",
    "Orders in the paper segment?",
    "What was the total spending in 2014?",
    "Average monthly spending of 2013 and 2014?",
    "total spend by acme",
    "orders delivered to 95814",
    "TOP 2 SUPPLIERS BY TOTAL SPEND",
    "",
    "total spending on acme",
    "how much did we spend on paper",
    "calcard spending in fiscal year",
    "top 0 suppliers by total spend",
    "top three suppliers based on total spend in 2014",
    "orders in 2013",
    "total spending on paper (a4) in 2014",
    "total spend by hooli",
    "total spend by hooli in fiscal year 2014",
    "total price of staplers purchased in 2014",
    "total spending in 2012",
    "total calcard spending in 2014",
    "calcard spending in fiscal year 2014",
    "total spend for the department parks in fiscal year 2014",
    "which acquisition type had the highest spend in 2012?",
    "po number zzz999",
    "quarter with the highest spending in 2012",
    "Total Spend By ACME",
    "Total price of PAPER purchased in 2014",
    "how many orders were placed in 2014?",
    "how many orders did a.me make?",
    "how many purchases used the informal (competitive acquisition method?",
    "quantity and unit price for the item paper in purchase order req0011118",
    "how much did we spend on paper in 2014",
    "list all suppliers",
    "list suppliers in zip 95814",
    "purchases linked to location 95814",
    "po number req0011118",
    "po number req001",
    "orders from acme corporation in 2014",
    "total orders by acme in 2014",
    "total orders from acme in 2014",
    "orders with it",
    "total price for all purchases under supplier code 123",
    "what segment and family classification does the paper belong to?",
    "location with most orders">>

Compiled == Tab([i \in 1..Len(Patterns) |-> Compile(Patterns[i][1], Patterns[i][2])], Len(Patterns))
Lowered == Tab([qi \in 1..Len(Questions) |-> Lower(Questions[qi])], Len(Questions))
\* the texts whose searches are computed once: the questions in lower case
\* and as typed
Searched == Lowered \o SelectSeq(Questions, LAMBDA q : Lower(q) # q)
Searches ==
  Tab([qi \in 1..Len(Searched) |->
         Tab([pi \in 1..Len(Patterns) |->
                Search(Compiled[pi], IF Patterns[pi][2] THEN Lower(Searched[qi]) ELSE Searched[qi])],
             Len(Patterns))], Len(Searched))

\* re.search(pat, s), with re.IGNORECASE when icase (the groups of the
\* match are positions in s)
re_search(pat, icase, s) ==
  LET qs == {qi \in 1..Len(Searched) : Searched[qi] = s}
      ps == {pi \in 1..Len(Patterns) : Patterns[pi] = <<pat, icase>>}
  IN IF qs # {} /\ ps # {} THEN Searches[CHOOSE qi \in qs : TRUE][CHOOSE pi \in ps : TRUE]
     ELSE Search(Compile(pat, icase), IF icase THEN Lower(s) ELSE s)
ReSearch(pat, icase, s) == Invoke("re.search", <<pat, icase, s>>)
Re(s, pat) == ReSearch(pat, FALSE, s)

\* re.findall(pat, s) for a pattern whose matches are its texts
re_findall(pat, s) == FindAll(Compile(pat, FALSE), s)
ReFindAll(pat, s) == Invoke("re.findall", <<pat, s>>)

\* re.sub(p, "", s) for a compiled pattern p
RECURSIVE SubEmpty(_, _)
SubEmpty(p, s) ==
  LET m == Search(p, s)
  IN IF ~m.ok \/ m.end = m.start THEN s
     ELSE Slice(s, 1, m.start - 1) \o SubEmpty(p, Slice(s, m.end, Len(s)))
\* re.sub(pat, "", s)
re_sub(pat, s) == SubEmpty(Compile(pat, FALSE), s)
ReSub(pat, s) == Invoke("re.sub", <<pat, s>>)

----------------------------------------------------------------------------
(* The rules of handle_question.  A rule is given the lower-cased question *)
(* and the table and yields what its branch does:                          *)
(*   skip   its condition is false                                         *)
(*   pass   the branch runs to its end without a return                    *)
(*   ret    it returns text                                                *)
(*   raise  it raises an exception whose message is text                   *)
(* Emoji are written as short codes (":warning:" for the warning sign).    *)

Skip == [kind |-> "skip", text |-> ""]
Pass == [kind |-> "pass", text |-> ""]
Ret(text) == [kind |-> "ret", text |-> text]
Raise(msg) == [kind |-> "raise", text |-> msg]
\* the step r, then K on its value; an exception ends the branch
Bind(r, K(_)) == IF r.err THEN Raise(r.msg) ELSE K(r.val)
\* body, in which row[col] is read for each col of cs
Need(df, cs, body) == IF Missing(df, cs) # "" THEN Raise(KeyError(Missing(df, cs))) ELSE body

\* the lines that a comprehension over df.head(n).iterrows() gives
Lines(df, n, F(_)) ==
  LET h == HeadRows(df, n) IN Join([i \in 1..Len(h.rows) |-> F(h.rows[i])], "\n")
\* the lines that a comprehension over series.items() gives
ItemLines(s, F(_, _)) == Join([i \in 1..Len(s) |-> F(i, s[i])], "\n")

\* if any(phrase in question ...) at line 118: purchases by ZIP code
PurchasesByZip(q, df) ==
  IF ~(Has(q, "purchases delivered to zip") \/ Has(q, "purchases in zip")
       \/ Has(q, "orders delivered to"))
  THEN Skip
  ELSE
    LET zip_match == Re(q, "(?:zip code|zip|location)\\s*(\\d{5})")
        zip_code == Group(q, zip_match, 1)
    IN IF ~zip_match.ok THEN Pass
       ELSE
         Bind(StrContains(df, "Location", TRUE, Same, zip_code, FALSE, FALSE), LAMBDA location_mask :
         Bind(StrContains(df, "Supplier Zip Code", TRUE, Same, zip_code, FALSE, FALSE), LAMBDA supplier_zip_mask :
         Bind(Select(df, MaskOr(location_mask, supplier_zip_mask)), LAMBDA purchases :
           IF ~IsEmpty(purchases)
           THEN Need(purchases, <<"Item Name">>,
                  Ret(":round_pushpin: Purchases for location " \o zip_code \o ":\n"
                      \o Lines(purchases, 20, LAMBDA row :
                           "- " \o TextCell(row["Item Name"]) \o " ($"
                           \o MoneyCell(row["Total Price"]) \o ", "
                           \o IsoDate(Val(row["Purchase Date"])) \o ")")))
           ELSE Ret(":warning: No purchases found for ZIP code " \o zip_code))))

\* elif at line 139: purchases by acquisition method
PurchasesByAcquisitionMethod(q, df) ==
  IF ~(Has(q, "purchases used the") /\ Has(q, "acquisition method")) THEN Skip
  ELSE
    LET method_match == Re(q, "the (.+?) acquisition method")
        method == Strip(Group(q, method_match, 1))
        year_match == Re(q, "in (\\d{4})")
        year == IntOf(Group(q, year_match, 1))
    IN IF ~method_match.ok THEN Pass
       ELSE
         Bind(StrContains(df, "Acquisition Method", FALSE, Same, method, TRUE, FALSE), LAMBDA method_mask :
           IF year_match.ok
           THEN Bind(Equals(df, "Year", year), LAMBDA year_mask :
                Bind(Select(df, MaskAnd(method_mask, year_mask)), LAMBDA sel :
                  Ret(":package: Number of " \o method \o " purchases in " \o DecStr(year)
                      \o ": " \o DecStr(Len(sel.rows)))))
           ELSE Bind(Select(df, method_mask), LAMBDA sel :
                  Ret(":package: Total " \o method \o " purchases: " \o DecStr(Len(sel.rows)))))

\* df or df[df['Year'] == year]
OfYear(df, year_match, year) ==
  IF year_match.ok THEN Filter(df, LAMBDA r : r["Year"] = Some(year)) ELSE df

\* df.groupby(key)['Total Price'].sum().nlargest(n), or the KeyError
TopBySpend(df, key, n) ==
  IF key \notin df.cols THEN Err(KeyError(key))
  ELSE Ok(NLargest(GroupSum(df, key, "Total Price"), n))

\* if at line 156: top N suppliers by total spend
TopNSuppliersBySpend(q, df) ==
  IF ~(Has(q, "top") /\ Has(q, "suppliers") /\ Has(q, "total spend")) THEN Skip
  ELSE
    LET num_match == Re(q, "top (\\d+)")
        n == IF num_match.ok THEN IntOf(Group(q, num_match, 1)) ELSE 3
        year_match == Re(q, "in (\\d{4})")
        year == IntOf(Group(q, year_match, 1))
        time_period == IF year_match.ok THEN "in " \o DecStr(year) ELSE "overall"
    IN Bind(TopBySpend(OfYear(df, year_match, year), "Supplier Name", n), LAMBDA suppliers :
         IF Len(suppliers) > 0
         THEN Ret(":trophy: Top " \o DecStr(n) \o " suppliers " \o time_period \o ":\n"
                  \o ItemLines(suppliers, LAMBDA i, e :
                       DecStr(i) \o ". " \o e.key \o ": $" \o Money(e.sum)))
         ELSE Ret(":warning: No supplier data found " \o time_period))

\* elif at line 184: total spend of a supplier code
SupplierCodeSpending(q, df) ==
  IF ~(Has(q, "supplier code") /\ (Has(q, "total price") \/ Has(q, "total spend"))) THEN Skip
  ELSE
    LET code_match == Re(q, "supplier code (\\d+)")
        code == Strip(Group(q, code_match, 1))
        supplier_data == Filter(df, LAMBDA r : Strip(AsStr(r["Supplier Code"])) = code)
    IN IF ~code_match.ok THEN Pass
       ELSE Need(df, <<"Supplier Code">>,
              IF ~IsEmpty(supplier_data)
              THEN Ret(":office: Total spend for supplier code " \o code \o " ("
                       \o TextCell(supplier_data.rows[1]["Supplier Name"]) \o "): $"
                       \o Money(Sum(supplier_data, "Total Price")) \o "\n"
                       \o "- Number of purchases: " \o DecStr(Len(supplier_data.rows)))
              ELSE Ret(":warning: No purchases found for supplier code " \o code))

\* elif at line 201: the acquisition type of the highest spend
HighestSpendAcquisitionType(q, df) ==
  IF ~Has(q, "acquisition type had the highest spend") THEN Skip
  ELSE
    LET year_match == Re(q, "in (\\d{4})")
        year == IntOf(Group(q, year_match, 1))
        df_year == OfYear(df, year_match, year)
    IN IF ~IsEmpty(df_year)
       THEN Bind(TopBySpend(df_year, "Acquisition Type", 1), LAMBDA top_type :
              IF Len(top_type) = 0
              THEN Raise("index 0 is out of bounds for axis 0 with size 0")
              ELSE Ret(":bar_chart: Highest spending acquisition type "
                       \o (IF year_match.ok THEN "in " \o DecStr(year) ELSE "") \o ":\n"
                       \o "- " \o top_type[1].key \o ": $" \o Money(top_type[1].sum)))
       ELSE Ret(":warning: No data found for specified year")

\* elif at line 218: the most frequently purchased items of a fiscal year
FrequentlyPurchasedItems(q, df) ==
  IF ~(Has(q, "most frequently purchased items") /\ Has(q, "fiscal year")) THEN Skip
  ELSE
    LET year_match == Re(q, "fiscal year (\\d{4})")
        year == Group(q, year_match, 1)
    IN IF ~year_match.ok THEN Pass
       ELSE
         Bind(StrContains(df, "Fiscal Year", FALSE, Same, year, FALSE, TRUE), LAMBDA fiscal_mask :
         Bind(Select(df, fiscal_mask), LAMBDA sel :
         Bind(Column(sel, "Item Name"), LAMBDA names :
           LET top_items == SubSeq(ValueCounts(names), 1, Min({10, Len(ValueCounts(names))}))
           IN IF Len(top_items) > 0
              THEN Ret(":shopping_trolley: Most frequently purchased items in FY" \o year \o ":\n"
                       \o ItemLines(top_items, LAMBDA i, e :
                            "- " \o e.key \o " (" \o DecStr(e.sum) \o ")"))
              ELSE Ret(":warning: No purchase data found for FY" \o year))))

\* re.search(pat, question).group(1): the text, or the AttributeError of
\* None.group
Group1(q, pat) ==
  LET m == Re(q, pat) IN IF m.ok THEN Ok(Group(q, m, 1)) ELSE Err(NoneGroupError)

\* elif at line 235: the normalized UNSPSC code of an item
NormalizedUnspsc(q, df) ==
  IF ~Has(q, "normalized unspsc for") THEN Skip
  ELSE
    Bind(Group1(q, "for (.+?)\\??$"), LAMBDA g :
      LET item == Upper(Strip(g)) IN
      Bind(StrContains(df, "Item Name", FALSE, Upper, item, FALSE, TRUE), LAMBDA mask :
      Bind(Select(df, mask), LAMBDA items :
        IF ~IsEmpty(items)
        THEN Need(items, <<"Normalized UNSPSC">>,
               Ret(":label: Normalized UNSPSC for " \o item \o ": "
                   \o TextCell(items.rows[1]["Normalized UNSPSC"])))
        ELSE Ret(":warning: No UNSPSC code found for " \o item))))

\* elif at line 246: the transactions of a sub-acquisition method
TransactionsBySubAcquisitionMethod(q, df) ==
  IF ~Has(q, "transactions with sub-acquisition method") THEN Skip
  ELSE
    Bind(Group1(q, "method (.+?)\\??$"), LAMBDA g :
      LET method == Strip(g) IN
      Bind(StrContains(df, "Sub-Acquisition Method", FALSE, Same, method, TRUE, TRUE), LAMBDA mask :
      Bind(Select(df, mask), LAMBDA transactions :
        IF ~IsEmpty(transactions)
        THEN Need(transactions, <<"Item Name">>,
               Ret(":memo: Transactions with sub-acquisition method '" \o method \o "':\n"
                   \o Lines(transactions, 10, LAMBDA row :
                        "- " \o TextCell(row["Item Name"]) \o " ($"
                        \o MoneyCell(row["Total Price"]) \o ")")))
        ELSE Ret(":warning: No transactions found with sub-acquisition method '"
                 \o method \o "'"))))

\* series.notna(), row by row
NotNa(df, col) ==
  IF col \notin df.cols THEN Err(KeyError(col))
  ELSE Ok([i \in 1..Len(df.rows) |-> Some(~IsNa(df.rows[i][col]))])

\* f"{row.get(col, 'N/A')}" for a row of df
GetText(df, row, col) == IF col \in df.cols THEN TextCell(row[col]) ELSE "N/A"

\* the text of the classification of the first row of df
ClassificationText(item, df) ==
  ":label: Classification for " \o item \o ":\n"
  \o "- Segment: " \o GetText(df, df.rows[1], "Segment Title") \o "\n"
  \o "- Family: " \o GetText(df, df.rows[1], "Family Title")

\* the rule of line 260 with a condition that never holds
ItemClassificationNever(q, df) == Skip

\* if at line 260: segment and family of an item
ItemClassification(q, df) ==
  IF ~Has(q, "segment and family classification") THEN Skip
  ELSE
    Bind(Group1(q, "the (.+?)\\??$"), LAMBDA g :
      LET item == Upper(Strip(g)) IN
      Bind(NotNa(df, "Item Name"), LAMBDA notna :
      Bind(StrContains(df, "Item Name", FALSE, Upper, item, FALSE, FALSE), LAMBDA mask :
      Bind(Select(df, MaskAnd(notna, mask)), LAMBDA classification :
        IF ~IsEmpty(classification)
        THEN Ret(ClassificationText(item, classification))
        ELSE Ret(":warning: No classification found for item " \o item)))))

\* f"{int(series.sum())}" of the Quantity column
QuantitySum(df) == DecStr(Sum(df, "Quantity"))

\* elif at line 274: the quantity of the items of a classification code
ItemQuantityByCode(q, df) ==
  IF ~(Has(q, "how many items of") /\ Has(q, "bought in")) THEN Skip
  ELSE
    LET match == Re(q, "items of (\\w+) (?:bought|purchased) in (\\d{4})")
        item_code == Group(q, match, 1)
        year == IntOf(Group(q, match, 2))
    IN IF ~match.ok THEN Pass
       ELSE
         Bind(StrContains(df, "Classification Codes", TRUE, Same, item_code, FALSE, FALSE), LAMBDA m1 :
         Bind(StrContains(df, "Normalized UNSPSC", TRUE, Same, item_code, FALSE, FALSE), LAMBDA m2 :
         Bind(Equals(df, "Year", year), LAMBDA m3 :
         Bind(Select(df, MaskAnd(MaskOr(m1, m2), m3)), LAMBDA sel :
           Need(sel, <<"Quantity">>,
             Ret(":package: Total quantity of items with code " \o item_code \o " in "
                 \o DecStr(year) \o ": " \o QuantitySum(sel)))))))

\* elif at line 287: the three suppliers of the highest spend
TopSuppliersBySpend(q, df) ==
  IF ~Has(q, "top three suppliers based on total spend") THEN Skip
  ELSE
    LET year_match == Re(q, "in (\\d{4})")
        year == IntOf(Group(q, year_match, 1))
    IN Bind(TopBySpend(OfYear(df, year_match, year), "Supplier Name", 3), LAMBDA top_suppliers :
         Ret(":trophy: Top 3 suppliers "
             \o (IF year_match.ok THEN "in " \o DecStr(year) ELSE "overall") \o ":\n"
             \o ItemLines(top_suppliers, LAMBDA i, e : "- " \o e.key \o ": $" \o Money(e.sum))))

\* elif at line 307: the spend of a department in a fiscal year
DepartmentSpending(q, df) ==
  IF ~(Has(q, "total spend for the department") /\ Has(q, "fiscal year")) THEN Skip
  ELSE
    LET dept_match == Re(q, "department (.+?) in fiscal year (\\d{4})")
        dept == Strip(Group(q, dept_match, 1))
        year == IntOf(Group(q, dept_match, 2))
    IN IF ~dept_match.ok THEN Pass
       ELSE
         Bind(StrContains(df, "Department Name", FALSE, Same, dept, TRUE, TRUE), LAMBDA dept_mask :
         Bind(StrContains(df, "Fiscal Year", FALSE, Same, DecStr(year), FALSE, TRUE), LAMBDA year_mask :
         Bind(Select(df, MaskAnd(dept_mask, year_mask)), LAMBDA sel :
           Ret(":classical_building: Total spend for " \o Title(dept) \o " in FY"
               \o DecStr(year) \o ": $" \o Money(Sum(sel, "Total Price"))))))

\* elif at line 319: the purchases of a location
PurchasesByLocation(q, df) ==
  IF ~Has(q, "purchases linked to location") THEN Skip
  ELSE
    LET loc_match == Re(q, "location (\\d+)")
        zip_code == Group(q, loc_match, 1)
    IN IF ~loc_match.ok THEN Pass
       ELSE
         Bind(StrContains(df, "Location", TRUE, Same, zip_code, FALSE, FALSE), LAMBDA mask :
         Bind(Select(df, mask), LAMBDA purchases :
           IF ~IsEmpty(purchases)
           THEN Need(purchases, <<"Item Name">>,
                  Ret(":round_pushpin: Purchases for location " \o zip_code \o ":\n"
                      \o Lines(purchases, 10, LAMBDA row :
                           "- " \o TextCell(row["Item Name"]) \o " ($"
                           \o MoneyCell(row["Total Price"]) \o ")")))
           ELSE Ret(":warning: No purchases found for location " \o zip_code)))

\* elif at line 334: the total price of the purchases of a supplier code
SpendingBySupplierCode(q, df) ==
  IF ~Has(q, "total price for all purchases under supplier code") THEN Skip
  ELSE
    LET code_match == Re(q, "supplier code (\\d+)")
        code == Group(q, code_match, 1)
    IN IF ~code_match.ok THEN Pass
       ELSE Need(df, <<"Supplier Code">>,
              Ret(":office: Total spend for supplier code " \o code \o ": $"
                  \o Money(Sum(Filter(df, LAMBDA r : AsStr(r["Supplier Code"]) = code),
                               "Total Price"))))

\* The Python values format_currency is handed: type is the name of the
\* value's type; a float is nan, inf, -inf or finite (n: its amount in
\* cents); an int is n, or lies beyond the largest float (such as 10**400);
\* a str is the text s.
PyNone == [type |-> "NoneType", n |-> 0, s |-> ""]
PyFloat(cents) == [type |-> "float", n |-> cents, s |-> "finite"]
PyNan == [type |-> "float", n |-> 0, s |-> "nan"]
PyInf == [type |-> "float", n |-> 0, s |-> "inf"]
PyMinusInf == [type |-> "float", n |-> 0, s |-> "-inf"]
PyInt(k) == [type |-> "int", n |-> k, s |-> "fits a float"]
PyHugeInt == [type |-> "int", n |-> 0, s |-> "beyond float"]
PyStr(text) == [type |-> "str", n |-> 0, s |-> text]
PyList == [type |-> "list", n |-> 0, s |-> ""]        \* a list of two numbers
PyDict == [type |-> "dict", n |-> 0, s |-> ""]

\* pd.isna(amount) for a scalar
pd_isna(a) == a.type = "NoneType" \/ (a.type = "float" /\ a.s = "nan")

\* float(text): blanks around it dropped, a sign, then inf, infinity or nan
\* in any case, or digits with an optional point (texts of at most two
\* decimals and without exponent); anything else is a ValueError
FloatOfText(text) ==
  LET t == Strip(text)
      signed == t # "" /\ At(t, 1) \in {"-", "+"}
      neg == t # "" /\ At(t, 1) = "-"
      u == IF signed THEN Slice(t, 2, Len(t)) ELSE t
      dots == Occurrences(u, ".")
      v == IF u # "" /\ At(u, 1) = "." THEN "0" \o u ELSE u
  IN IF Lower(u) \in {"inf", "infinity"} THEN Ok(IF neg THEN PyMinusInf ELSE PyInf)
     ELSE IF Lower(u) = "nan" THEN Ok(PyNan)
     ELSE IF u # "." /\ ~IsNa(ToNumeric(v))
       THEN Ok(PyFloat(IF neg THEN 0 - Val(ToNumeric(v)) ELSE Val(ToNumeric(v))))
     ELSE Err("ValueError")

\* float(amount)
FloatOf(a) ==
  IF a.type = "float" THEN Ok(a)
  ELSE IF a.type = "int"
    THEN (IF a.s = "beyond float" THEN Err("OverflowError") ELSE Ok(PyFloat(100 * a.n)))
  ELSE IF a.type = "str" THEN FloatOfText(a.s)
  ELSE Err("TypeError")

\* f"{x:,.2f}" for a float
FloatMoney(x) ==
  IF x.s # "finite" THEN x.s
  ELSE IF x.n < 0 THEN "-" \o Money(0 - x.n) ELSE Money(x.n)

\* format_currency(amount): the text it returns, or the exception that
\* leaves it. "if pd.isna(amount)" on a list of two asks for the truth value
\* of an array, a ValueError.
format_currency(amount) ==
  LET stripped == IF amount.type = "str"
                  THEN PyStr(Remove(Remove(amount.s, "$"), ",")) ELSE amount
      body == IF amount.type = "list" THEN Err("ValueError")
              ELSE IF pd_isna(amount) THEN Ok("$0.00")
              ELSE IF FloatOf(stripped).err THEN FloatOf(stripped)
              ELSE Ok("$" \o FloatMoney(FloatOf(stripped).val))
  IN IF body.err /\ body.msg \in {"ValueError", "TypeError"} THEN Ok("$0.00") ELSE body

\* a cell of a cleaned price column as the float it is
PriceOfCell(c) == IF IsNa(c) THEN PyNan ELSE PyFloat(Val(c))
\* format_currency(cell) for a cell of a cleaned price column
CurrencyOfCell(c) == format_currency(PriceOfCell(c)).val

\* f"{row['Quantity']}": a column that holds a NaN is a column of floats
QuantityText(df, c) ==
  IF IsNa(c) THEN "nan"
  ELSE IF \E i \in 1..Len(df.rows) : IsNa(df.rows[i]["Quantity"]) THEN DecStr(Val(c)) \o ".0"
  ELSE DecStr(Val(c))

\* df[[c1, c2]]: the KeyError when columns are missing
PairError(df, c1, c2) ==
  IF c1 \notin df.cols /\ c2 \notin df.cols
  THEN "\"None of [Index(['" \o c1 \o "', '" \o c2 \o "'], dtype='object')] are in the [columns]\""
  ELSE IF c1 \notin df.cols THEN "\"['" \o c1 \o "'] not in index\""
  ELSE IF c2 \notin df.cols THEN "\"['" \o c2 \o "'] not in index\""
  ELSE ""

\* df[[c1, c2]].drop_duplicates(): the rows whose pair is new
DropDuplicates(df, c1, c2) ==
  LET at == SelectIdx(Len(df.rows), LAMBDA i :
              \A j \in 1..(i - 1) : <<df.rows[j][c1], df.rows[j][c2]>> # <<df.rows[i][c1], df.rows[i][c2]>>)
  IN [df EXCEPT !.rows = [k \in 1..Len(at) |-> df.rows[at[k]]]]

\* if at line 342: the items of an acquisition type
ItemsByAcquisitionType(q, df) ==
  IF ~Has(q, "list all items purchased under the acquisition type") THEN Skip
  ELSE
    Bind(SplitSecond(q, "acquisition type"), LAMBDA part :
      LET acq_type == Strip(part) IN
      Bind(StrContains(df, "Acquisition Type", FALSE, Same, acq_type, TRUE, FALSE), LAMBDA mask :
      Bind(Select(df, mask), LAMBDA sel :
        IF PairError(sel, "Item Name", "Item Description") # ""
        THEN Raise(PairError(sel, "Item Name", "Item Description"))
        ELSE LET items == DropDuplicates(sel, "Item Name", "Item Description")
             IN IF ~IsEmpty(items)
                THEN Ret(":clipboard: Items purchased under " \o acq_type \o ":\n"
                         \o Lines(items, 100, LAMBDA row :
                              "- " \o TextCell(row["Item Name"]) \o " ("
                              \o TextCell(row["Item Description"]) \o ")"))
                ELSE Ret(":warning: No items found under acquisition type " \o acq_type))))

\* if at line 354: the purchases from the suppliers of a qualification
PurchasesBySupplierQualification(q, df) ==
  IF ~Has(q, "purchases from suppliers with the qualification") THEN Skip
  ELSE
    Bind(SplitSecond(q, "qualification"), LAMBDA part :
      LET quals == Upper(Strip(part)) IN
      Bind(StrContains(df, "Supplier Qualifications", FALSE, Same, quals, FALSE, TRUE), LAMBDA mask :
      Bind(Select(df, mask), LAMBDA suppliers :
        IF ~IsEmpty(suppliers)
        THEN Need(suppliers, <<"Item Name">>,
               Ret(":office: Purchases from suppliers with " \o quals \o " qualification:\n"
                   \o Lines(suppliers, 100, LAMBDA row :
                        "- " \o Title(Val(row["Supplier Name"])) \o " ("
                        \o TextCell(row["Item Name"]) \o ")")))
        ELSE Ret(":warning: No purchases found from suppliers with " \o quals
                 \o " qualification"))))

\* if at line 366: quantity and unit price of an item of a purchase order
QuantityAndUnitPriceForPO(q, df) ==
  IF ~(Has(q, "quantity and unit price for the item") /\ Has(q, "purchase order")) THEN Skip
  ELSE
    Bind(Group1(q, "item (.+?) in"), LAMBDA g1 :
    Bind(Group1(q, "purchase order (.+?)$"), LAMBDA g2 :
      LET item == Upper(g1)
          po == Strip(g2)
      IN
      Bind(StrContains(df, "Purchase Order Number", TRUE, Same, po, FALSE, FALSE), LAMBDA m1 :
      Bind(StrContains(df, "Item Name", TRUE, Same, item, TRUE, FALSE), LAMBDA m2 :
      Bind(Select(df, MaskAnd(m1, m2)), LAMBDA purchase :
        IF ~IsEmpty(purchase)
        THEN Need(purchase, <<"Quantity">>,
               Ret(":bar_chart: For item " \o item \o " in PO " \o po \o ":\n"
                   \o "- Quantity: " \o QuantityText(df, purchase.rows[1]["Quantity"]) \o "\n"
                   \o "- Unit Price: " \o CurrencyOfCell(purchase.rows[1]["Unit Price"])))
        ELSE Ret(":warning: No matching purchase found for item " \o item
                 \o " in PO " \o po))))))

\* if at line 380: the number of purchases of an acquisition method
CountByAcquisitionMethod(q, df) ==
  IF ~Has(q, "how many purchases were made using the acquisition method") THEN Skip
  ELSE
    Bind(SplitSecond(q, "acquisition method"), LAMBDA part :
      LET method == Strip(part) IN
      Bind(StrContains(df, "Acquisition Method", FALSE, Same, method, TRUE, FALSE), LAMBDA mask :
      Bind(Select(df, mask), LAMBDA sel :
        Ret(":package: Number of purchases using " \o method \o ": **"
            \o DecStr(Len(sel.rows)) \o "**"))))

\* if at line 386: segment and family of an item, by the text after "the"
SegmentFamilyClassification(q, df) ==
  IF ~Has(q, "segment and family classification does the") THEN Skip
  ELSE
    Bind(SplitSecond(q, "the"), LAMBDA part :
      LET item == Upper(Strip(part)) IN
      Bind(StrContains(df, "Item Name", FALSE, Same, item, TRUE, FALSE), LAMBDA mask :
      Bind(Select(df, mask), LAMBDA classification :
        IF ~IsEmpty(classification)
        THEN Ret(ClassificationText(item, classification))
        ELSE Ret(":warning: No classification found for item " \o item))))

\* if at line 397: the spend of a supplier in a fiscal year
TotalSpendBySupplierInFiscalYear(q, df) ==
  LET fiscal_year_match == Re(q, "total spend by (.+?) in (?:the )?fiscal year (\\d{4})")
      supplier == Strip(Group(q, fiscal_year_match, 1))
      year == IntOf(Group(q, fiscal_year_match, 2))
  IN IF ~fiscal_year_match.ok THEN Skip
     ELSE
       Bind(StrContains(df, "Supplier Name", FALSE, Lower, Lower(supplier), FALSE, FALSE), LAMBDA supplier_mask :
       Bind(StrContains(df, "Fiscal Year", FALSE, Same, DecStr(year), FALSE, FALSE), LAMBDA fiscal_year_mask :
       Bind(Select(df, MaskAnd(supplier_mask, fiscal_year_mask)), LAMBDA matched :
         IF ~IsEmpty(matched)
         THEN Ret(":money_with_wings: Total spend by " \o Title(supplier) \o " in FY"
                  \o DecStr(year) \o ": **$" \o Money(Sum(matched, "Total Price")) \o "**")
         ELSE Ret(":warning: No spending found for " \o Title(supplier) \o " in FY"
                  \o DecStr(year)))))

\* series.str.upper() == v, row by row; the .str accessor needs texts
UpperEquals(df, col, v) ==
  IF col \notin df.cols THEN Err(KeyError(col))
  ELSE IF \A i \in 1..Len(df.rows) : IsNa(df.rows[i][col]) THEN Err(AccessorError)
  ELSE Ok([i \in 1..Len(df.rows) |->
             Some(~IsNa(df.rows[i][col]) /\ Upper(Val(df.rows[i][col])) = v)])

\* if at line 412: the CalCard spending of a fiscal year
CalCardSpendingInFiscalYear(q, df) ==
  IF ~(Has(q, "calcard") /\ Has(q, "fiscal year")) THEN Skip
  ELSE
    Bind(Group1(q, "fiscal year (\\d{4})"), LAMBDA g :
      LET year == IntOf(g) IN
      Bind(UpperEquals(df, "CalCard", "YES"), LAMBDA m1 :
      Bind(StrContains(df, "Fiscal Year", FALSE, Same, DecStr(year), FALSE, FALSE), LAMBDA m2 :
      Bind(Select(df, MaskAnd(m1, m2)), LAMBDA sel :
        Ret(":credit_card: Total CalCard spending in FY" \o DecStr(year) \o ": **$"
            \o Money(Sum(sel, "Total Price")) \o "**")))))

\* series.astype(str).str.lower() == v  /  .str.upper() == v, row by row
TextEquals(df, col, Pre(_), v) ==
  IF col \notin df.cols THEN Err(KeyError(col))
  ELSE Ok([i \in 1..Len(df.rows) |-> Some(Pre(AsStr(df.rows[i][col])) = v)])

\* if at line 420: the items bought from a supplier under an LPA number
ItemsBySupplierAndLpa(q, df) ==
  LET lpa_match == Re(q, "how many items? (?:were|was) purchased from (.+?) using lpa number ([A-Za-z0-9\\-]+)")
      supplier == Strip(Group(q, lpa_match, 1))
      lpa_num == Strip(Group(q, lpa_match, 2))
  IN IF ~lpa_match.ok THEN Skip
     ELSE
       Bind(StrContains(df, "Supplier Name", FALSE, Lower, Lower(supplier), FALSE, FALSE), LAMBDA supplier_mask :
       Bind(TextEquals(df, "LPA Number", Lower, Lower(lpa_num)), LAMBDA lpa_mask :
       Bind(Select(df, MaskAnd(supplier_mask, lpa_mask)), LAMBDA sel :
         Ret(":package: Items purchased from " \o Title(supplier) \o " under LPA " \o lpa_num
             \o ": **" \o DecStr(Len(sel.rows)) \o "**"))))

\* if at line 431: the acquisition methods used in a year
AcquisitionMethodsUsedInYear(q, df) ==
  IF ~(Has(q, "acquisition methods") /\ (Has(q, "used") \/ Has(q, "for purchases"))) THEN Skip
  ELSE
    LET year_match == Re(q, "(\\d{4})")
        year == IntOf(Group(q, year_match, 1))
    IN IF ~year_match.ok THEN Pass
       ELSE
         Bind(Column(OfYear(df, year_match, year), "Acquisition Method"), LAMBDA cells :
           LET methods == ValueCounts(cells)
           IN IF Len(methods) > 0
              THEN Ret(":memo: Acquisition methods used in " \o DecStr(year) \o ":\n"
                       \o ItemLines(methods, LAMBDA i, e : "- " \o e.key \o ": " \o DecStr(e.sum)))
              ELSE Ret(":warning: No acquisition method data found for " \o DecStr(year)))

\* if at line 446: the purchase order number of a requisition
PurchaseOrderNumberForRequisition(q, df) ==
  LET po_match == Re(q, "purchase order number (?:for|of) (?:the )?requisition (\\w+)")
      req_num == Upper(Group(q, po_match, 1))
  IN IF ~po_match.ok THEN Skip
     ELSE
       Bind(TextEquals(df, "Requisition Number", Upper, req_num), LAMBDA mask :
       Bind(Select(df, mask), LAMBDA sel :
       Bind(Column(sel, "Purchase Order Number"), LAMBDA cells :
         IF Len(cells) = 0 THEN Raise(IlocError)
         ELSE Ret(":1234: Purchase Order Number for Requisition " \o req_num \o ": **"
                  \o TextCell(cells[1]) \o "**"))))

FourDigits == "\\d{4}"

\* the number of rows of df[mask & (df['Year'] == year)]
CountInYear(df, mask, year) ==
  Cardinality({i \in 1..Len(df.rows) :
                 ~IsNa(mask[i]) /\ Val(mask[i]) /\ df.rows[i]["Year"] = Some(year)})

\* if at line 453: the orders from a supplier in several years
OrdersFromSupplierAcrossYears(q, df) ==
  IF ~(Has(q, "total orders from") /\ Has(q, "and")) THEN Skip
  ELSE
    LET supplier_match == Re(q, "total orders from (.+?) (?:in|during) (.+)")
        supplier_query == Strip(Group(q, supplier_match, 1))
        years_str == Group(q, supplier_match, 2)
        years == ReFindAll(FourDigits, years_str)
    IN IF ~supplier_match.ok THEN Pass
       ELSE IF Len(years) = 0 THEN Ret(":warning: Please specify valid year(s)")
       ELSE
         Bind(StrContains(df, "Supplier Name", TRUE, Lower, Lower(supplier_query), FALSE, FALSE), LAMBDA supplier_mask :
           Ret(":package: Orders from " \o Title(supplier_query) \o ":\n"
               \o ItemLines(years, LAMBDA i, y :
                    "- " \o DecStr(IntOf(y)) \o ": "
                    \o DecStr(CountInYear(df, supplier_mask, IntOf(y))) \o " orders")))

\* series.astype(str).str.lower().str.contains(frag) on Item Name or on
\* Item Description
ItemMask(df, frag) ==
  LET m1 == StrContains(df, "Item Name", TRUE, Lower, frag, FALSE, FALSE)
      m2 == StrContains(df, "Item Description", TRUE, Lower, frag, FALSE, FALSE)
  IN IF m1.err THEN m1 ELSE IF m2.err THEN m2 ELSE Ok(MaskOr(m1.val, m2.val))

\* if at line 478: the total quantity of an item bought in a year
TotalQuantityOfItem(q, df) ==
  LET first == Re(q, "(?:total|how many) quantity of (.+?) (?:purchased|bought|ordered) (?:in|during) (\\d{4})")
      quantity_match ==
        IF first.ok THEN first
        ELSE Re(q, "(?:total|how many) (.+?) (?:were|was) (?:purchased|bought|ordered) (?:in|during) (\\d{4})")
      item_query == Strip(Group(q, quantity_match, 1))
      year == IntOf(Group(q, quantity_match, 2))
  IN IF ~quantity_match.ok THEN Skip
     ELSE
       Bind(ItemMask(df, Lower(item_query)), LAMBDA item_mask :
       Bind(Equals(df, "Year", year), LAMBDA year_mask :
       Bind(Select(df, MaskAnd(item_mask, year_mask)), LAMBDA sel :
         Need(sel, <<"Quantity">>,
           Ret(":package: Total quantity of " \o item_query \o " purchased in " \o DecStr(year)
               \o ": **" \o QuantitySum(sel) \o "**")))))

\* if at line 495: the number of items ordered in a year
CountOfItemsOrderedInYear(q, df) ==
  IF ~Re(q, "how many items? (?:were|was) ordered? in (\\d{4})").ok THEN Skip
  ELSE
    LET m == Re(q, "\\d{4}")
        year == IntOf(Slice(q, m.start, m.end - 1))
    IN Bind(Column(OfYear(df, m, year), "Item Name"), LAMBDA cells :
         Ret(":package: Total items ordered in " \o DecStr(year) \o ": **"
             \o DecStr(Cardinality({i \in 1..Len(cells) : ~IsNa(cells[i])})) \o "**"))

\* if at line 502: the number of purchases of an item in a year
CountOfSpecificItems(q, df) ==
  LET match == Re(q, "how many (.+?) (?:were|was) (?:purchased|bought|ordered) (?:in|during) (\\d{4})")
      item_query == Strip(Group(q, match, 1))
      year == IntOf(Group(q, match, 2))
  IN IF ~match.ok THEN Skip
     ELSE
       Bind(ItemMask(df, item_query), LAMBDA item_mask :
         Ret(":package: Number of " \o item_query \o " purchased in " \o DecStr(year)
             \o ": **" \o DecStr(CountInYear(df, item_mask, year)) \o "**"))

\* if at line 518: the number of orders from a supplier in a year
CountOfOrdersFromSupplierInYear(q, df) ==
  LET match == Re(q, "(?:total|how many) orders? (?:from|of|for) (.+?) (?:in|during) (\\d{4})")
      supplier_query == Strip(Group(q, match, 1))
      year == IntOf(Group(q, match, 2))
  IN IF ~match.ok THEN Skip
     ELSE
       Bind(StrContains(df, "Supplier Name", TRUE, Lower, supplier_query, FALSE, TRUE), LAMBDA supplier_mask :
         Ret(":package: Orders from " \o Title(supplier_query) \o " in " \o DecStr(year)
             \o ": **" \o DecStr(CountInYear(df, supplier_mask, year)) \o "**"))

\* series.mode()[0]: the most frequent text, the smallest of them when
\* several are; the KeyError of [0] when there is no text at all
Mode(cells) ==
  LET vals == {Val(cells[i]) : i \in {j \in 1..Len(cells) : ~IsNa(cells[j])}}
      Count(v) == Cardinality({i \in 1..Len(cells) : cells[i] = Some(v)})
      best == {v \in vals : \A w \in vals : Count(w) <= Count(v)}
  IN IF vals = {} THEN Err("0") ELSE Ok(Sorted(best)[1])

\* line 535: df['Item_Clean'] = df['Item Name'].astype(str).str.lower().str.strip()
WithItemClean(df) ==
  Assign(df, "Item_Clean", LAMBDA r : Some(Strip(Lower(AsStr(r["Item Name"])))))

\* if at line 530: the total price of an item in a year
TotalPriceOfItemsInYear(q, df) ==
  LET match == Re(q, "total (?:price|spend|spending|amount) (?:of|for) ([\\w\\s\\-]+) (?:purchased|bought)? (?:in|for|during) (\\d{4})")
      item_query == Lower(Strip(Group(q, match, 1)))
      year == IntOf(Group(q, match, 2))
  IN IF ~match.ok THEN Skip
     ELSE IF "Item Name" \notin df.cols THEN Raise(KeyError("Item Name"))
     ELSE
       Bind(StrContains(WithItemClean(df), "Item_Clean", FALSE, Same, item_query, FALSE, TRUE), LAMBDA m1 :
       Bind(Equals(df, "Year", year), LAMBDA m2 :
       Bind(Select(WithItemClean(df), MaskAnd(m1, m2)), LAMBDA matched :
         IF ~IsEmpty(matched)
         THEN Bind(Mode([i \in 1..Len(matched.rows) |-> matched.rows[i]["Item Name"]]), LAMBDA example_item :
                Ret(":money_with_wings: Total spending on " \o item_query \o " in " \o DecStr(year)
                    \o ": **$" \o Money(Sum(matched, "Total Price")) \o "**\n(Example item: "
                    \o example_item \o ")"))
         ELSE Ret(":warning: No spending found for '" \o item_query \o "' in " \o DecStr(year)))))

\* if at line 552: the CalCard spending of a year
CalCardSpendingInYear(q, df) ==
  LET first == Re(q, "(?:total|how much) (?:calcard|cal card) (?:spend|spending|amount) (?:in|for|during) (\\d{4})")
      match == IF first.ok THEN first
               ELSE Re(q, "(?:what was|what's) (?:the)? (?:calcard|cal card) (?:spend|spending|amount) (?:in|for|during) (\\d{4})")
      year == IntOf(Group(q, match, 1))
  IN IF ~match.ok THEN Skip
     ELSE
       Bind(UpperEquals(df, "CalCard", "YES"), LAMBDA m1 :
       Bind(Equals(df, "Year", year), LAMBDA m2 :
       Bind(Select(df, MaskAnd(m1, m2)), LAMBDA sel :
         Ret(":credit_card: Total CalCard spending in " \o DecStr(year) \o ": **$"
             \o Money(Sum(sel, "Total Price")) \o "**"))))

\* str(timestamp) of a date
TimestampText(d) == IsoDate(d) \o " 00:00:00"

\* format_order_details(order) for the row order of the table df
format_order_details(df, order) ==
  LET Get(col) == GetText(df, order, col)
  IN Join(<<":page_facing_up: **Order Details**",
            "- Requisition #: " \o Get("Requisition Number"),
            "- PO #: " \o Get("Purchase Order Number"),
            "- Supplier: " \o Title(Get("Supplier Name")),
            "- Item: " \o Get("Item Name"),
            "- Description: " \o Get("Item Description"),
            "- Quantity: " \o (IF "Quantity" \in df.cols
                               THEN QuantityText(df, order["Quantity"]) ELSE "N/A"),
            "- Unit Price: " \o CurrencyOfCell(order["Unit Price"]),
            "- Total Price: " \o CurrencyOfCell(order["Total Price"]),
            "- Date: " \o TimestampText(Val(order["Purchase Date"])),
            "- Department: " \o Get("Department Name"),
            "- Location: " \o Get("Location")>>, "\n")

\* the rule of line 560 with the order number looked at before the
\* requisition number (lines 578-581 in the other order)
OrderNumberLookupPoFirst(q, df) ==
  LET order_num_match == ReSearch("(?:requisition|req|purchase order|po)[\\s\\-]?(?:number|no|#)?[\\s\\-]*([a-z0-9\\-\\.]+)", TRUE, q)
      search_num == Upper(Group(q, order_num_match, 1))
      IsReq(r) == Upper(AsStr(r["Requisition Number"])) = search_num
      IsPo(r) == Upper(AsStr(r["Purchase Order Number"])) = search_num
      exact == Filter(df, LAMBDA r : IsReq(r) \/ IsPo(r))
      ByReq == Filter(df, IsReq)
      ByPo == Filter(df, IsPo)
  IN IF ~order_num_match.ok THEN Skip
     ELSE
       Need(df, <<"Requisition Number", "Purchase Order Number">>,
         IF ~IsEmpty(exact)
         THEN Ret(format_order_details(df, IF ~IsEmpty(ByPo) THEN ByPo.rows[1] ELSE ByReq.rows[1]))
         ELSE
           Bind(StrContains(df, "Requisition Number", TRUE, Upper, search_num, FALSE, FALSE), LAMBDA m1 :
           Bind(StrContains(df, "Purchase Order Number", TRUE, Upper, search_num, FALSE, FALSE), LAMBDA m2 :
           Bind(Select(df, MaskOr(m1, m2)), LAMBDA matching_orders :
             IF ~IsEmpty(matching_orders)
             THEN Ret(format_order_details(df, matching_orders.rows[1]))
             ELSE Ret(":warning: No order found with number " \o search_num)))))

\* if at line 560: the order of a requisition or purchase order number
OrderNumberLookup(q, df) ==
  LET order_num_match == ReSearch("(?:requisition|req|purchase order|po)[\\s\\-]?(?:number|no|#)?[\\s\\-]*([a-z0-9\\-\\.]+)", TRUE, q)
      search_num == Upper(Group(q, order_num_match, 1))
      IsReq(r) == Upper(AsStr(r["Requisition Number"])) = search_num
      IsPo(r) == Upper(AsStr(r["Purchase Order Number"])) = search_num
      exact == Filter(df, LAMBDA r : IsReq(r) \/ IsPo(r))
      ByReq == Filter(df, IsReq)
      ByPo == Filter(df, IsPo)
  IN IF ~order_num_match.ok THEN Skip
     ELSE
       Need(df, <<"Requisition Number", "Purchase Order Number">>,
         IF ~IsEmpty(exact)
         THEN Ret(format_order_details(df, IF ~IsEmpty(ByReq) THEN ByReq.rows[1] ELSE ByPo.rows[1]))
         ELSE
           Bind(StrContains(df, "Requisition Number", TRUE, Upper, search_num, FALSE, FALSE), LAMBDA m1 :
           Bind(StrContains(df, "Purchase Order Number", TRUE, Upper, search_num, FALSE, FALSE), LAMBDA m2 :
           Bind(Select(df, MaskOr(m1, m2)), LAMBDA matching_orders :
             IF ~IsEmpty(matching_orders)
             THEN Ret(format_order_details(df, matching_orders.rows[1]))
             ELSE Ret(":warning: No order found with number " \o search_num)))))

\* date.strftime('%m/%d/%Y')
UsDate(d) == Pad2(d.m) \o "/" \o Pad2(d.d) \o "/" \o DecStr(d.y)

\* if at line 589: the most expensive item
MostExpensiveItem(q, df) ==
  IF ~(Has(q, "most expensive") /\ (Has(q, "item") \/ Has(q, "purchase"))) THEN Skip
  ELSE IF ~("Total Price" \in df.cols /\ "Item Name" \in df.cols) THEN Pass
  ELSE
    LET priced == {i \in 1..Len(df.rows) : ~IsNa(df.rows[i]["Total Price"])}
        top == Min({i \in priced : \A j \in priced :
                      Val(df.rows[j]["Total Price"]) <= Val(df.rows[i]["Total Price"])})
        most_expensive == df.rows[top]
    IN IF priced = {} THEN Raise("nan")
       ELSE Ret(":gem: Most expensive item purchased: **" \o TextCell(most_expensive["Item Name"])
                \o "**\n- Price: **" \o CurrencyOfCell(most_expensive["Total Price"])
                \o "**\n- Supplier: " \o Title(Val(most_expensive["Supplier Name"]))
                \o "\n- Date: " \o UsDate(Val(most_expensive["Purchase Date"])))

MonthNames ==
  <<"january", "february", "march", "april", "may", "june", "july", "august",
    "september", "october", "november", "december">>
\* str.capitalize()
Capitalize(s) == IF s = "" THEN "" ELSE UpperCh(At(s, 1)) \o Lower(Slice(s, 2, Len(s)))

\* month_str_to_number(month_name): the number of a full English month
\* name, 0 for None
month_str_to_number(month_name) ==
  LET at == {m \in 1..12 : Capitalize(MonthNames[m]) = Capitalize(month_name)}
  IN IF at = {} THEN 0 ELSE Min(at)

\* pd.to_datetime(f"{word} 1, {year}"): a month name or its first three
\* letters gives the first of that month; a number up to 12 the first of
\* that month, a number from 13 to 31 that day of January; anything else
\* does not parse
ParseMonthYear(word, year) ==
  LET named == {m \in 1..12 : word = MonthNames[m] \/ word = Slice(MonthNames[m], 1, 3)}
             \cup (IF word = "sept" THEN {9} ELSE {})
      y == IntOf(year)
      n == IntOf(word)
  IN IF y < 1678 \/ y > 2261
     THEN Err("Out of bounds nanosecond timestamp: " \o word \o " 1, " \o year)
     ELSE IF named # {} THEN Ok([y |-> y, m |-> Min(named), d |-> 1])
     ELSE IF IsDigits(word) /\ Len(word) <= 2 /\ n >= 1 /\ n <= 12 THEN Ok([y |-> y, m |-> n, d |-> 1])
     ELSE IF IsDigits(word) /\ Len(word) <= 2 /\ n >= 13 /\ n <= 31 THEN Ok([y |-> y, m |-> 1, d |-> n])
     ELSE Err("Unknown datetime string format, unable to parse: " \o word \o " 1, " \o year)

\* date + pd.offsets.MonthEnd(1): the next end of a month after the date
MonthEnd(d) ==
  IF d.d < DaysIn(d.y, d.m) THEN [d EXCEPT !.d = DaysIn(d.y, d.m)]
  ELSE IF d.m = 12 THEN [y |-> d.y + 1, m |-> 1, d |-> 31]
  ELSE [y |-> d.y, m |-> d.m + 1, d |-> DaysIn(d.y, d.m + 1)]

DateLeq(a, b) ==
  a.y < b.y \/ (a.y = b.y /\ (a.m < b.m \/ (a.m = b.m /\ a.d <= b.d)))
\* date.strftime('%b %Y')
MonthYearText(d) == Capitalize(Slice(MonthNames[d.m], 1, 3)) \o " " \o DecStr(d.y)

\* if at line 599: the orders between two months
DateRangeQueries(q, df) ==
  LET match == Re(q, "orders? between (\\w+)\\s+(\\d{4}) and (\\w+)\\s+(\\d{4})")
  IN IF ~match.ok THEN Skip
     ELSE
       Bind(ParseMonthYear(Group(q, match, 1), Group(q, match, 2)), LAMBDA start_date :
       Bind(ParseMonthYear(Group(q, match, 3), Group(q, match, 4)), LAMBDA first :
         LET end_date == MonthEnd(first)
             result == Filter(df, LAMBDA r : DateLeq(start_date, Val(r["Purchase Date"]))
                                             /\ DateLeq(Val(r["Purchase Date"]), end_date))
         IN Ret(":date: Orders between " \o MonthYearText(start_date) \o " and "
                \o MonthYearText(end_date) \o ": **" \o DecStr(Len(result.rows)) \o "**")))

\* the list of the first 50 of the supplier names, with its footer
SupplierList(suppliers) ==
  Join([i \in 1..Min({50, Len(suppliers)}) |-> "- " \o Title(Val(suppliers[i]))], "\n")
  \o "\n\n(Showing " \o DecStr(Min({50, Len(suppliers)})) \o " of " \o DecStr(Len(suppliers))
  \o " total suppliers)"

\* if at line 610: the suppliers of a ZIP code
SuppliersByZipCode(q, df) ==
  LET match == Re(q, "(?:list|show|all) suppliers? (?:from|in|with) zip(?: code)?\\s*(\\d{5})")
      zip_code == Group(q, match, 1)
  IN IF ~match.ok THEN Skip
     ELSE
       Bind(StrContains(df, "Supplier Zip Code", TRUE, Same, zip_code, FALSE, FALSE), LAMBDA mask :
       Bind(Select(df, mask), LAMBDA sel :
       Bind(Column(sel, "Supplier Name"), LAMBDA names :
         IF Len(Unique(names)) > 0
         THEN Ret(":office: Suppliers from ZIP " \o zip_code \o ":\n\n" \o SupplierList(Unique(names)))
         ELSE Ret(":warning: No suppliers found in ZIP code " \o zip_code))))

\* if at line 621: the suppliers of a qualification
SuppliersWithQualifications(q, df) ==
  LET match == Re(q, "suppliers? with ([\\w\\-]+) qualification")
      qual == Upper(Group(q, match, 1))
  IN IF ~match.ok THEN Skip
     ELSE
       Bind(StrContains(df, "Supplier Qualifications", FALSE, Same, qual, FALSE, TRUE), LAMBDA mask :
       Bind(Select(df, mask), LAMBDA sel :
       Bind(Column(sel, "Supplier Name"), LAMBDA names :
         IF Len(Unique(names)) > 0
         THEN Ret(":office: Suppliers with " \o qual \o " qualification:\n\n"
                  \o SupplierList(Unique(names)))
         ELSE Ret(":warning: No suppliers found with " \o qual \o " qualification"))))

\* if at line 631: the most common delivery location
MostCommonDeliveryLocation(q, df) ==
  IF ~(Has(q, "most common delivery location") \/ Has(q, "location with most orders")) THEN Skip
  ELSE IF "Location" \notin df.cols THEN Pass
  ELSE
    LET counts == ValueCounts([i \in 1..Len(df.rows) |-> df.rows[i]["Location"]])
    IN IF Len(counts) = 0 THEN Raise("attempt to get argmax of an empty sequence")
       ELSE Ret(":round_pushpin: Most common delivery location: **" \o counts[1].key
                \o "** (" \o DecStr(counts[1].sum) \o " orders)")

\* the rule of line 643 reading the column Item_Clean that line 535 makes
TotalPriceOfItemInYearClean(q, df) ==
  LET first == Re(q, "total (?:price|spend|spending|amount) (?:of|for) ([\\w\\s\\-]+) (?:in|for|during) (\\d{4})")
      match == IF first.ok THEN first
               ELSE Re(q, "how much (?:was|did) (?:we|they) spend on ([\\w\\s\\-]+) (?:in|for|during) (\\d{4})")
      item_query == Lower(Strip(Group(q, match, 1)))
      year == IntOf(Group(q, match, 2))
  IN IF ~match.ok THEN Skip
     ELSE
       Bind(StrContains(df, "Item_Clean", FALSE, Same, item_query, FALSE, TRUE), LAMBDA m1 :
       Bind(Equals(df, "Year", year), LAMBDA m2 :
       Bind(Select(df, MaskAnd(m1, m2)), LAMBDA matched :
         IF ~IsEmpty(matched)
         THEN Bind(Mode([i \in 1..Len(matched.rows) |-> matched.rows[i]["Item Name"]]), LAMBDA actual_name :
                Ret(":money_with_wings: Total spending on " \o actual_name \o " in " \o DecStr(year)
                    \o ": **$" \o Money(Sum(matched, "Total Price")) \o "**"))
         ELSE Ret(":warning: No spending found for '" \o item_query \o "' in " \o DecStr(year)))))

\* if at line 643: the total price of an item in a year
TotalPriceOfItemInYear(q, df) ==
  LET first == Re(q, "total (?:price|spend|spending|amount) (?:of|for) ([\\w\\s\\-]+) (?:in|for|during) (\\d{4})")
      match == IF first.ok THEN first
               ELSE Re(q, "how much (?:was|did) (?:we|they) spend on ([\\w\\s\\-]+) (?:in|for|during) (\\d{4})")
      item_query == Lower(Strip(Group(q, match, 1)))
      year == IntOf(Group(q, match, 2))
  IN IF ~match.ok THEN Skip
     ELSE
       Bind(StrContains(df, "Item Name", FALSE, Lower, item_query, FALSE, TRUE), LAMBDA m1 :
       Bind(Equals(df, "Year", year), LAMBDA m2 :
       Bind(Select(df, MaskAnd(m1, m2)), LAMBDA matched :
         IF ~IsEmpty(matched)
         THEN Bind(Mode([i \in 1..Len(matched.rows) |-> matched.rows[i]["Item Name"]]), LAMBDA actual_name :
                Ret(":money_with_wings: Total spending on " \o actual_name \o " in " \o DecStr(year)
                    \o ": **$" \o Money(Sum(matched, "Total Price")) \o "**"))
         ELSE Ret(":warning: No spending found for '" \o item_query \o "' in " \o DecStr(year)))))

\* if at line 656: the list of the suppliers
ListOfSuppliers(q, df) ==
  IF ~Re(q, "(?:list|show|name|all|give me) (?:the|of|all)? ?suppliers?").ok THEN Skip
  ELSE IF "Supplier Name" \notin df.cols THEN Ret(":warning: No 'Supplier Name' column in data.")
  ELSE
    LET suppliers == Unique([i \in 1..Len(df.rows) |-> Title(Val(df.rows[i]["Supplier Name"]))])
    IN Ret(":office: List of Suppliers:\n\n"
           \o Join([i \in 1..Min({10, Len(suppliers)}) |-> "- " \o suppliers[i]], "\n")
           \o "\n\n(Showing 10 of " \o DecStr(Len(suppliers)) \o " total suppliers)")

\* if at line 666: the number of orders of a supplier
TotalOrdersOfSupplier(q, df) ==
  LET match == Re(q, "total orders? (?:of|from|by|for) ([\\w\\s\\-]+)")
      supplier_query == Lower(Strip(Group(q, match, 1)))
  IN IF ~match.ok THEN Skip
     ELSE
       Bind(StrContains(df, "Supplier Name", FALSE, Lower, supplier_query, FALSE, TRUE), LAMBDA mask :
       Bind(Select(df, mask), LAMBDA matched :
         Ret(":package: Total orders from " \o Title(supplier_query) \o ": **"
             \o DecStr(Len(matched.rows)) \o "**")))

\* if at line 673: the number of orders of a supplier in a year
TotalOrdersOfSupplierInYear(q, df) ==
  LET match == Re(q, "total orders? (?:of|from|by|for) ([\\w\\s\\-]+) (?:in|for|during) (\\d{4})")
      supplier_query == Lower(Strip(Group(q, match, 1)))
      year == IntOf(Group(q, match, 2))
  IN IF ~match.ok THEN Skip
     ELSE
       Bind(StrContains(df, "Supplier Name", FALSE, Lower, supplier_query, FALSE, TRUE), LAMBDA mask :
         Ret(":package: Total orders from " \o Title(supplier_query) \o " in " \o DecStr(year)
             \o ": **" \o DecStr(CountInYear(df, mask, year)) \o "**"))

\* the number of the rows of df that Keep holds of
Count(df, Keep(_)) == Cardinality({i \in 1..Len(df.rows) : Keep(df.rows[i])})

\* if at line 684: the orders of a day
SpecificDate(q, df) ==
  LET match == Re(q, "(?:on|made on|placed on|received on)? ?(\\w+)\\s+(\\d{1,2}),?\\s+(\\d{4})")
      month_name == Group(q, match, 1)
      day == IntOf(Group(q, match, 2))
      year == IntOf(Group(q, match, 3))
      month == month_str_to_number(month_name)
  IN IF ~match.ok THEN Skip
     ELSE IF month = 0 THEN Pass
     ELSE Ret(":date: Total orders on " \o Capitalize(month_name) \o " " \o DecStr(day) \o ", "
              \o DecStr(year) \o ": **"
              \o DecStr(Count(df, LAMBDA r : r["Year"] = Some(year) /\ r["Month"] = Some(month)
                                             /\ Val(r["Purchase Date"]).d = day)) \o "**")

\* if at line 693: the orders of a month
MonthAndYear(q, df) ==
  LET match == Re(q, "(?:in|for|from) (\\w+) (\\d{4})")
      month_name == Group(q, match, 1)
      year == IntOf(Group(q, match, 2))
      month == month_str_to_number(month_name)
  IN IF ~match.ok THEN Skip
     ELSE IF month = 0 THEN Pass
     ELSE Ret(":package: Total orders in " \o Capitalize(month_name) \o " " \o DecStr(year)
              \o ": **"
              \o DecStr(Count(df, LAMBDA r : r["Year"] = Some(year) /\ r["Month"] = Some(month)))
              \o "**")

YearWords == "\\b(20\\d{2})\\b"

\* if at line 702: the orders of several years
MultipleYears(q, df) ==
  LET years == ReFindAll(YearWords, q)
  IN IF ~(Has(q, "order") /\ Len(years) >= 2) THEN Skip
     ELSE Ret(":bar_chart: Total orders by year:\n\n"
              \o ItemLines(years, LAMBDA i, y :
                   ":package: " \o y \o ": "
                   \o DecStr(Count(df, LAMBDA r : r["Year"] = Some(IntOf(y)))) \o " orders"))

\* the rule of line 712 counting the rows of every year
SingleYearAllRows(q, df) ==
  LET match == Re(q, "(?:how many|number of)? ?orders (?:were )?(?:placed|made|received)? ?(?:in|during|for)? ?(\\d{4})")
      year == IntOf(Group(q, match, 1))
  IN IF ~match.ok THEN Skip
     ELSE Ret(":package: Total orders in " \o DecStr(year) \o ": **"
              \o DecStr(Len(df.rows)) \o "**")

\* if at line 712: the orders of a year
SingleYear(q, df) ==
  LET match == Re(q, "(?:how many|number of)? ?orders (?:were )?(?:placed|made|received)? ?(?:in|during|for)? ?(\\d{4})")
      year == IntOf(Group(q, match, 1))
  IN IF ~match.ok THEN Skip
     ELSE Ret(":package: Total orders in " \o DecStr(year) \o ": **"
              \o DecStr(Count(df, LAMBDA r : r["Year"] = Some(year))) \o "**")

\* df.groupby('Quarter')['Total Price'].sum(): the sum of each quarter
\* that has rows, and idxmax(): the first quarter of the largest sum
QuarterSpending(df) ==
  LET qs == {k \in 1..4 : \E i \in 1..Len(df.rows) : df.rows[i]["Quarter"] = Some(k)}
      S(k) == SumCells([i \in 1..Len(df.rows) |->
                          IF df.rows[i]["Quarter"] = Some(k) THEN df.rows[i]["Total Price"] ELSE NaN],
                       Len(df.rows))
      max_q == Min({k \in qs : \A j \in qs : S(j) <= S(k)})
  IN [max_q |-> max_q, sum |-> S(max_q)]

\* if at line 719: the quarter of the highest spending of a year
QuarterWithHighestSpendingInYear(q, df) ==
  LET match == Re(q, "quarter.*highest.*(?:in|for)? ?(\\d{4})")
      year == IntOf(Group(q, match, 1))
      df_year == OfYear(df, match, year)
      spending == QuarterSpending(df_year)
  IN IF ~match.ok THEN Skip
     ELSE IF IsEmpty(df_year) THEN Ret(":warning: No data for year " \o DecStr(year) \o ".")
     ELSE Ret(":moneybag: Quarter with highest spending in " \o DecStr(year) \o ": **Q"
              \o DecStr(spending.max_q) \o " ($" \o Money(spending.sum) \o ")**")

\* the answer of the three rules that count the rows whose column col
\* contains the digits of the question
CountContaining(q, df, pat, col, found, missing) ==
  LET match == Re(q, pat)
      query == Group(q, match, 1)
  IN IF ~match.ok THEN Skip
     ELSE IF col \notin df.cols THEN Ret(missing)
     ELSE
       Bind(StrContains(df, col, TRUE, Same, query, FALSE, TRUE), LAMBDA mask :
       Bind(Select(df, mask), LAMBDA matched :
         Ret(found \o query \o ": **" \o DecStr(Len(matched.rows)) \o "**")))

\* if at line 732: the orders from the suppliers of a ZIP code
OrdersFromSuppliersInZip(q, df) ==
  CountContaining(q, df, "orders? from suppliers? in zip (\\d{5})", "Supplier Zip Code",
                  ":package: Orders from suppliers in ZIP ",
                  ":warning: No supplier ZIP column found in data.")

\* if at line 743: the orders delivered to a ZIP code
OrdersDeliveredTo(q, df) ==
  CountContaining(q, df, "orders? delivered to (\\d{5})", "Location",
                  ":package: Orders delivered to ",
                  ":warning: No delivery/location ZIP column found in data.")

\* if at line 754: the orders of a classification code
OrdersWithClassificationCode(q, df) ==
  CountContaining(q, df, "classification code (\\d+)", "Classification Codes",
                  ":package: Orders with classification code ",
                  ":warning: No classification code column found in data.")

category_cols == <<"Commodity Title", "Class Title", "Family Title", "Segment Title">>

\* if at line 765: the orders under a category
OrdersUnderCategory(q, df) ==
  LET match == Re(q, "(orders|purchases) (under|in|from|for) (.+?) (category|item|group)?\\??$")
      keyword == Lower(Strip(Group(q, match, 3)))
      present == SelectSeq(category_cols, LAMBDA c : c \in df.cols)
      masks == [k \in 1..Len(present) |-> StrContains(df, present[k], FALSE, Lower, keyword, FALSE, TRUE)]
      failed == {k \in 1..Len(present) : masks[k].err}
      \* drop_duplicates: rows that are equal count once
      total_matches == {df.rows[i] : i \in {j \in 1..Len(df.rows) :
                           \E k \in 1..Len(present) : Val(masks[k].val[j])}}
  IN IF ~match.ok THEN Skip
     ELSE IF failed # {} THEN Raise(masks[Min(failed)].msg)
     ELSE IF Cardinality(total_matches) > 0
          THEN Ret(":package: Total orders under '" \o keyword \o "' category: **"
                   \o DecStr(Cardinality(total_matches)) \o "**")
          ELSE Ret(":x: No orders found under the category '" \o keyword \o "'.")

\* df[df['Supplier Name'].str.contains(supplier_query, na=False)]
SupplierRows(df, supplier_query) ==
  LET mask == StrContains(df, "Supplier Name", FALSE, Same, supplier_query, FALSE, TRUE)
  IN IF mask.err THEN mask ELSE Select(df, mask.val)

\* if at line 785: the number of orders a supplier made
HowManyOrdersDidSupplierMake(q, df) ==
  LET match == Re(q, "how many orders did ([\\w\\s&\\-\\.]+) (make|place|have|do)\\??")
      supplier_query == Lower(Strip(Group(q, match, 1)))
  IN IF ~match.ok THEN Skip
     ELSE Bind(SupplierRows(df, supplier_query), LAMBDA matched :
            Ret(":package: " \o Title(supplier_query) \o " made **"
                \o DecStr(Len(matched.rows)) \o "** orders."))

\* the answer with the sum whether or not a row was selected
SpendOfSupplierAlways(df, supplier_query, found) ==
  Bind(SupplierRows(df, supplier_query), LAMBDA matched :
    Bind(Mode([i \in 1..Len(matched.rows) |-> matched.rows[i]["Supplier Name"]]), LAMBDA actual_name :
      Ret(found \o actual_name \o ": **$" \o Money(Sum(matched, "Total Price")) \o "**")))

\* the answer of the two rules that sum the spend of the suppliers whose
\* name contains the text of the question
SpendOfSupplier(df, supplier_query, found) ==
  Bind(SupplierRows(df, supplier_query), LAMBDA matched :
    IF ~IsEmpty(matched)
    THEN Bind(Mode([i \in 1..Len(matched.rows) |-> matched.rows[i]["Supplier Name"]]), LAMBDA actual_name :
           Ret(found \o actual_name \o ": **$" \o Money(Sum(matched, "Total Price")) \o "**"))
    ELSE Ret(":warning: No spending found for supplier '" \o supplier_query \o "'"))

\* if at line 792: the total spend of a supplier
TotalSpendBySupplier(q, df) ==
  LET match == Re(q, "total (spend|spending|expenditure|amount) by ([\\w\\s&\\-\\.]+)")
  IN IF ~match.ok THEN Skip
     ELSE SpendOfSupplier(df, Lower(Strip(Group(q, match, 2))), ":money_with_wings: Total spend by ")

MethodWords == "(method|type|acquisition)"

\* if at line 804: the orders of an acquisition method or type
OrdersByAcquisitionMethodOrType(q, df) ==
  LET match == Re(q, "orders (?:using|used|with) ([\\w\\s\\/\\-]+)")
      keyword == Lower(Strip(Group(q, match, 1)))
      keyword_cleaned == Strip(ReSub(MethodWords, keyword))
  IN IF ~match.ok THEN Skip
     ELSE
       Bind(StrContains(df, "Acquisition Method", FALSE, Lower, keyword_cleaned, FALSE, TRUE), LAMBDA m1 :
       Bind(Select(df, m1), LAMBDA result_method :
       Bind(StrContains(df, "Acquisition Type", FALSE, Lower, keyword_cleaned, FALSE, TRUE), LAMBDA m2 :
       Bind(Select(df, m2), LAMBDA result_type :
         LET total == Len(result_method.rows) + Len(result_type.rows)
         IN IF total > 0
            THEN Ret(":gear: Total orders using **" \o Strip(Group(q, match, 1)) \o "**: **"
                     \o DecStr(total) \o "**")
            ELSE Ret(":warning: No orders found using '" \o Strip(Group(q, match, 1)) \o "'")))))

\* if at line 817: the total spending of a year
TotalSpendingInYear(q, df) ==
  LET match == Re(q, "(?:total|overall) spending in (\\d{4})")
      year == IntOf(Group(q, match, 1))
  IN IF ~match.ok THEN Skip
     ELSE Ret(":money_with_wings: Total spending in " \o DecStr(year) \o ": **$"
              \o Money(Sum(OfYear(df, match, year), "Total Price")) \o "**")

\* f"{total / 12:,.2f}" for a total of cents: the twelfth, rounded to the
\* cent (a tie, which the binary float decides, is rounded up here)
MonthlyAverage(cents) == Money((cents * 10 + 60) \div 120)

\* if at line 824: the average monthly spending of years
AverageMonthlySpending(q, df) ==
  LET match == Re(q, "average monthly spending(?: in| of)? ([\\d,\\sand]+)")
      years == ReFindAll(FourDigits, Group(q, match, 1))
      Ys == {IntOf(years[i]) : i \in 1..Len(years)}
      result == Filter(df, LAMBDA r : ~IsNa(r["Year"]) /\ Val(r["Year"]) \in Ys)
  IN IF ~match.ok THEN Skip
     ELSE IF IsEmpty(result)
          THEN Ret(":warning: No records found for year(s): "
                   \o Join([i \in 1..Len(years) |-> DecStr(IntOf(years[i]))], ", "))
          ELSE Ret(":chart_with_upwards_trend: Average Monthly Spending:\n\n"
                   \o ItemLines(years, LAMBDA i, y :
                        ":bar_chart: " \o DecStr(IntOf(y)) \o ": **$"
                        \o MonthlyAverage(Sum(Filter(result, LAMBDA r : r["Year"] = Some(IntOf(y))),
                                              "Total Price")) \o "**"))

\* if at line 837: the quarter of the highest spending
QuarterWithHighestSpending(q, df) ==
  IF ~(Has(q, "quarter with") /\ Has(q, "highest")) THEN Skip
  ELSE Ret(":moneybag: Quarter with highest spending: **Q" \o DecStr(QuarterSpending(df).max_q)
           \o " ($" \o Money(QuarterSpending(df).sum) \o ")**")

\* if at line 844: the total spending on a supplier
TotalSpendingOnSupplier(q, df) ==
  LET match == Re(q, "total spending on ([\\w\\s&\\-\\.]+)")
  IN IF ~match.ok THEN Skip
     ELSE SpendOfSupplier(df, Lower(Strip(Group(q, match, 1))), ":money_with_wings: Total spending on ")

\* df[col].value_counts().head(n) as lines "- value (count)"
CountLines(df, col, n) ==
  LET counts == ValueCounts([i \in 1..Len(df.rows) |-> df.rows[i][col]])
  IN ItemLines(SubSeq(counts, 1, IF n <= 0 THEN 0 ELSE Min({n, Len(counts)})),
               LAMBDA i, e : "- " \o e.key \o " (" \o DecStr(e.sum) \o ")")

\* the answer "label: **value** (count orders)" for the most frequent value
\* of a column; idxmax of an empty value_counts raises
MostCommon(df, col, label) ==
  LET counts == ValueCounts([i \in 1..Len(df.rows) |-> df.rows[i][col]])
  IN IF Len(counts) = 0 THEN Raise("attempt to get argmax of an empty sequence")
     ELSE Ret(label \o ": **" \o counts[1].key \o "** (" \o DecStr(counts[1].sum) \o " orders)")

\* if at line 855: the items bought most frequently
MostFrequentItems(q, df) ==
  IF ~(Has(q, "most frequent") /\ Has(q, "item")) THEN Skip
  ELSE IF "Item Name" \notin df.cols THEN Pass
  ELSE Ret(":shopping_trolley: Top 5 most frequently purchased items:\n\n"
           \o CountLines(df, "Item Name", 5))

MostWords == "(the )?(most|highest|largest|greatest|max(imum)?|biggest|top) number of orders"

\* if at line 862: the supplier of the most orders
SupplierWithMostOrders(q, df) ==
  IF ~(\/ (Has(q, "supplier")
           /\ (\/ Has(q, "most orders")
               \/ Has(q, "highest number of orders")
               \/ Has(q, "largest number of orders")
               \/ Has(q, "greatest number of orders")
               \/ Has(q, "maximum number of orders")
               \/ Has(q, "biggest number of orders")
               \/ Has(q, "top number of orders")))
       \/ Re(q, "name of (the )?supplier with " \o MostWords).ok
       \/ Re(q, "which supplier had " \o MostWords).ok
       \/ Re(q, "who (is|was) (the )?supplier with " \o MostWords).ok
       \/ Re(q, "supplier with " \o MostWords).ok)
  THEN Skip
  ELSE IF "Supplier Name" \notin df.cols THEN Ret(":warning: No 'Supplier Name' column in data.")
  ELSE MostCommon(df, "Supplier Name", ":office: Supplier with most orders")

\* if at line 884: the five suppliers of the highest spending
SpendingBySupplier(q, df) ==
  IF ~Has(q, "spending by supplier") THEN Skip
  ELSE Bind(TopBySpend(df, "Supplier Name", 5), LAMBDA supplier_spending :
         Ret(":office: Top 5 suppliers by total spending:\n\n"
             \o ItemLines(supplier_spending, LAMBDA i, e : "- " \o e.key \o ": $" \o Money(e.sum))))

\* if at line 891: the most common class
MostCommonClass(q, df) ==
  IF ~Has(q, "most common class") THEN Skip
  ELSE IF "Class Title" \notin df.cols THEN Pass
  ELSE MostCommon(df, "Class Title", ":books: Most common class")

\* if at line 897: the five most common segments
TopSegments(q, df) ==
  IF ~(Has(q, "top categories") \/ Has(q, "top segments")) THEN Skip
  ELSE IF "Segment Title" \notin df.cols THEN Pass
  ELSE Ret(":package: Top 5 segments:\n\n" \o CountLines(df, "Segment Title", 5))

\* if at line 905: the location of the most orders
LocationWithMostOrders(q, df) ==
  IF ~Has(q, "location with most orders") THEN Skip
  ELSE IF "Location" \notin df.cols THEN Pass
  ELSE MostCommon(df, "Location", ":round_pushpin: Location with most orders")

\* if at line 911: the items bought the most
ItemsBoughtTheMost(q, df) ==
  IF ~Re(q, "(what|which) (items|item) (were|was)? ?(bought|purchased|ordered)? ?(the )?most").ok
  THEN Skip
  ELSE IF "Item Name" \notin df.cols THEN Ret(":warning: No 'Item Name' column in data.")
  ELSE Ret(":shopping_trolley: Top 5 most frequently bought items:\n\n"
           \o CountLines(df, "Item Name", 5))

\* re.sub(r"s$", "", s) and re.sub(r"'s$", "", s): $ is the end of the
\* text, or the place before a newline that ends it
DropEnding(s, ending) ==
  LET t == IF Slice(s, Len(s), Len(s)) = "\n" THEN Slice(s, 1, Len(s) - 1) ELSE s
      n == Len(t) - Len(ending)
  IN IF n >= 0 /\ Slice(t, n + 1, Len(t)) = ending
     THEN Slice(t, 1, n) \o Slice(s, Len(t) + 1, Len(s))
     ELSE s

\* if at line 921: the spending on an item
HowMuchSpentOnItem(q, df) ==
  LET match == Re(q, "how much (did we|was)? ?(spend|spent) on ([\\w\\s&\\-\\.]+)")
      item_query == Strip(DropEnding(DropEnding(Lower(Strip(Group(q, match, 3))), "'s"), "s"))
  IN IF ~match.ok THEN Skip
     ELSE IF "Item Name" \notin df.cols THEN Ret(":warning: No 'Item Name' column in data.")
     ELSE
       Bind(StrContains(df, "Item Name", FALSE, Lower, item_query, FALSE, TRUE), LAMBDA mask :
       Bind(Select(df, mask), LAMBDA matched :
         IF ~IsEmpty(matched)
         THEN Bind(Mode([i \in 1..Len(matched.rows) |-> matched.rows[i]["Item Name"]]), LAMBDA actual_name :
                Ret(":money_with_wings: Total spending on " \o actual_name \o ": **$"
                    \o Money(Sum(matched, "Total Price")) \o "**"))
         ELSE Ret(":warning: No spending found for item '" \o item_query \o "'")))

\* if at line 938: the orders of a segment
OrdersInSegment(q, df) ==
  LET match == Re(q, "orders in (the )?([\\w\\s&\\-\\.]+) segment")
      segment_query == Lower(Strip(Group(q, match, 2)))
  IN IF ~match.ok THEN Skip
     ELSE IF "Segment Title" \notin df.cols THEN Ret(":warning: No 'Segment Title' column in data.")
     ELSE
       Bind(StrContains(df, "Segment Title", FALSE, Lower, segment_query, FALSE, TRUE), LAMBDA mask :
       Bind(Select(df, mask), LAMBDA matched :
         Ret(":package: Orders in the '" \o segment_query \o "' segment: **"
             \o DecStr(Len(matched.rows)) \o "**")))

\* if at line 946: the supplier of the highest spending
MostExpensiveSupplier(q, df) ==
  IF ~(\/ (Has(q, "supplier")
           /\ (\/ Has(q, "most expensive") \/ Has(q, "highest spending")
               \/ Has(q, "most spending") \/ Has(q, "greatest spending")
               \/ Has(q, "largest spending")))
       \/ Re(q, "who (was|is) (the )?(most expensive|highest spending|most spending|greatest spending|largest spending) supplier").ok)
  THEN Skip
  ELSE IF "Supplier Name" \notin df.cols THEN Ret(":warning: No 'Supplier Name' column in data.")
  ELSE LET top == NLargest(GroupSum(df, "Supplier Name", "Total Price"), 1)
       IN Ret(":money_with_wings: Most expensive supplier: **" \o top[1].key \o "** ($"
              \o Money(top[1].sum) \o ")")

\* if at line 959: the orders from a supplier in a year
OrdersFromSupplierInYear(q, df) ==
  LET match == Re(q, "orders? (?:from|by|with|placed with|made by) ([\\w\\s&\\-\\.]+) in (\\d{4})")
      supplier_query == Lower(Strip(Group(q, match, 1)))
      year == IntOf(Group(q, match, 2))
  IN IF ~match.ok THEN Skip
     ELSE
       Bind(StrContains(df, "Supplier Name", FALSE, Same, supplier_query, FALSE, TRUE), LAMBDA mask :
         Ret(":package: Orders from " \o Title(supplier_query) \o " in " \o DecStr(year)
             \o ": **" \o DecStr(CountInYear(df, mask, year)) \o "**"))

\* if at line 966: the orders from a supplier
HowManyOrdersFromSupplier(q, df) ==
  LET match == Re(q, "how many orders (from|by|with|placed with|made by) ([\\w\\s&\\-\\.]+)\\??")
      supplier_query == Lower(Strip(Group(q, match, 2)))
  IN IF ~match.ok THEN Skip
     ELSE Bind(SupplierRows(df, supplier_query), LAMBDA matched :
            Ret(":package: Orders from " \o Title(supplier_query) \o ": **"
                \o DecStr(Len(matched.rows)) \o "**"))

\* if at line 972: the items bought most
TopItems(q, df) ==
  LET match == Re(q, "(top|show|list|give me|tell me|what are|which are)? ?(\\d+)? ?(most|top)? ?(bought|purchased|ordered)? ?items")
      n == IF HasGroup(match, 2) THEN IntOf(Group(q, match, 2)) ELSE 10
  IN IF ~match.ok THEN Skip
     ELSE IF "Item Name" \notin df.cols THEN Ret(":warning: No 'Item Name' column in data.")
     ELSE Ret(":shopping_trolley: Top " \o DecStr(n) \o " most bought items:\n\n"
              \o CountLines(df, "Item Name", n))

suggestions ==
  <<"Try asking about orders in a specific year or quarter",
    "Ask about spending by supplier or department",
    "Query about most frequently purchased items",
    "Ask 'Which supplier had the most orders?'",
    "Try 'What was the total spending in 2014?'">>

\* the fallback with every suggestion of the list, not the first three
FallbackAllSuggestions ==
  ":x: I didn't understand your question. Try one of these:\n\n- "
  \o Join(suggestions, "\n- ")

\* the answer of lines 984-992, when no rule has returned
Fallback ==
  ":x: I didn't understand your question. Try one of these:\n\n- "
  \o Join(SubSeq(suggestions, 1, 3), "\n- ")

----------------------------------------------------------------------------
(* handle_question: the rules in the order of the text, lines 118-981.     *)

\* the rules, in the order of the text
RuleNames ==
  <<
    "PurchasesByZip", "PurchasesByAcquisitionMethod", "TopNSuppliersBySpend",
    "SupplierCodeSpending", "HighestSpendAcquisitionType", "FrequentlyPurchasedItems",
    "NormalizedUnspsc", "TransactionsBySubAcquisitionMethod", "ItemClassification",
    "ItemQuantityByCode", "TopSuppliersBySpend", "DepartmentSpending",
    "PurchasesByLocation", "SpendingBySupplierCode", "ItemsByAcquisitionType",
    "PurchasesBySupplierQualification", "QuantityAndUnitPriceForPO", "CountByAcquisitionMethod",
    "SegmentFamilyClassification", "TotalSpendBySupplierInFiscalYear", "CalCardSpendingInFiscalYear",
    "ItemsBySupplierAndLpa", "AcquisitionMethodsUsedInYear", "PurchaseOrderNumberForRequisition",
    "OrdersFromSupplierAcrossYears", "TotalQuantityOfItem", "CountOfItemsOrderedInYear",
    "CountOfSpecificItems", "CountOfOrdersFromSupplierInYear", "TotalPriceOfItemsInYear",
    "CalCardSpendingInYear", "OrderNumberLookup", "MostExpensiveItem",
    "DateRangeQueries", "SuppliersByZipCode", "SuppliersWithQualifications",
    "MostCommonDeliveryLocation", "TotalPriceOfItemInYear", "ListOfSuppliers",
    "TotalOrdersOfSupplier", "TotalOrdersOfSupplierInYear", "SpecificDate",
    "MonthAndYear", "MultipleYears", "SingleYear",
    "QuarterWithHighestSpendingInYear", "OrdersFromSuppliersInZip", "OrdersDeliveredTo",
    "OrdersWithClassificationCode", "OrdersUnderCategory", "HowManyOrdersDidSupplierMake",
    "TotalSpendBySupplier", "OrdersByAcquisitionMethodOrType", "TotalSpendingInYear",
    "AverageMonthlySpending", "QuarterWithHighestSpending", "TotalSpendingOnSupplier",
    "MostFrequentItems", "SupplierWithMostOrders", "SpendingBySupplier",
    "MostCommonClass", "TopSegments", "LocationWithMostOrders",
    "ItemsBoughtTheMost", "HowMuchSpentOnItem", "OrdersInSegment",
    "MostExpensiveSupplier", "OrdersFromSupplierInYear", "HowManyOrdersFromSupplier",
    "TopItems"
  >>
NRules == Len(RuleNames)

\* how each rule is written: an if of its own, or an elif of the if before
RuleKind ==
  <<
    "if", "elif", "if", "elif", "elif", "elif", "elif", "elif", "if", "elif",
    "elif", "elif", "elif", "elif", "if", "if", "if", "if", "if", "if",
    "if", "if", "if", "if", "if", "if", "if", "if", "if", "if",
    "if", "if", "if", "if", "if", "if", "if", "if", "if", "if",
    "if", "if", "if", "if", "if", "if", "if", "if", "if", "if",
    "if", "if", "if", "if", "if", "if", "if", "if", "if", "if",
    "if", "if", "if", "if", "if", "if", "if", "if", "if", "if"
  >>

\* what the branch of rule i does with the question q and the table df
RuleOut(i, q, df) ==
  CASE
       i = 1 -> PurchasesByZip(q, df)
    [] i = 2 -> PurchasesByAcquisitionMethod(q, df)
    [] i = 3 -> TopNSuppliersBySpend(q, df)
    [] i = 4 -> SupplierCodeSpending(q, df)
    [] i = 5 -> HighestSpendAcquisitionType(q, df)
    [] i = 6 -> FrequentlyPurchasedItems(q, df)
    [] i = 7 -> NormalizedUnspsc(q, df)
    [] i = 8 -> TransactionsBySubAcquisitionMethod(q, df)
    [] i = 9 -> ItemClassification(q, df)
    [] i = 10 -> ItemQuantityByCode(q, df)
    [] i = 11 -> TopSuppliersBySpend(q, df)
    [] i = 12 -> DepartmentSpending(q, df)
    [] i = 13 -> PurchasesByLocation(q, df)
    [] i = 14 -> SpendingBySupplierCode(q, df)
    [] i = 15 -> ItemsByAcquisitionType(q, df)
    [] i = 16 -> PurchasesBySupplierQualification(q, df)
    [] i = 17 -> QuantityAndUnitPriceForPO(q, df)
    [] i = 18 -> CountByAcquisitionMethod(q, df)
    [] i = 19 -> SegmentFamilyClassification(q, df)
    [] i = 20 -> TotalSpendBySupplierInFiscalYear(q, df)
    [] i = 21 -> CalCardSpendingInFiscalYear(q, df)
    [] i = 22 -> ItemsBySupplierAndLpa(q, df)
    [] i = 23 -> AcquisitionMethodsUsedInYear(q, df)
    [] i = 24 -> PurchaseOrderNumberForRequisition(q, df)
    [] i = 25 -> OrdersFromSupplierAcrossYears(q, df)
    [] i = 26 -> TotalQuantityOfItem(q, df)
    [] i = 27 -> CountOfItemsOrderedInYear(q, df)
    [] i = 28 -> CountOfSpecificItems(q, df)
    [] i = 29 -> CountOfOrdersFromSupplierInYear(q, df)
    [] i = 30 -> TotalPriceOfItemsInYear(q, df)
    [] i = 31 -> CalCardSpendingInYear(q, df)
    [] i = 32 -> OrderNumberLookup(q, df)
    [] i = 33 -> MostExpensiveItem(q, df)
    [] i = 34 -> DateRangeQueries(q, df)
    [] i = 35 -> SuppliersByZipCode(q, df)
    [] i = 36 -> SuppliersWithQualifications(q, df)
    [] i = 37 -> MostCommonDeliveryLocation(q, df)
    [] i = 38 -> TotalPriceOfItemInYear(q, df)
    [] i = 39 -> ListOfSuppliers(q, df)
    [] i = 40 -> TotalOrdersOfSupplier(q, df)
    [] i = 41 -> TotalOrdersOfSupplierInYear(q, df)
    [] i = 42 -> SpecificDate(q, df)
    [] i = 43 -> MonthAndYear(q, df)
    [] i = 44 -> MultipleYears(q, df)
    [] i = 45 -> SingleYear(q, df)
    [] i = 46 -> QuarterWithHighestSpendingInYear(q, df)
    [] i = 47 -> OrdersFromSuppliersInZip(q, df)
    [] i = 48 -> OrdersDeliveredTo(q, df)
    [] i = 49 -> OrdersWithClassificationCode(q, df)
    [] i = 50 -> OrdersUnderCategory(q, df)
    [] i = 51 -> HowManyOrdersDidSupplierMake(q, df)
    [] i = 52 -> TotalSpendBySupplier(q, df)
    [] i = 53 -> OrdersByAcquisitionMethodOrType(q, df)
    [] i = 54 -> TotalSpendingInYear(q, df)
    [] i = 55 -> AverageMonthlySpending(q, df)
    [] i = 56 -> QuarterWithHighestSpending(q, df)
    [] i = 57 -> TotalSpendingOnSupplier(q, df)
    [] i = 58 -> MostFrequentItems(q, df)
    [] i = 59 -> SupplierWithMostOrders(q, df)
    [] i = 60 -> SpendingBySupplier(q, df)
    [] i = 61 -> MostCommonClass(q, df)
    [] i = 62 -> TopSegments(q, df)
    [] i = 63 -> LocationWithMostOrders(q, df)
    [] i = 64 -> ItemsBoughtTheMost(q, df)
    [] i = 65 -> HowMuchSpentOnItem(q, df)
    [] i = 66 -> OrdersInSegment(q, df)
    [] i = 67 -> MostExpensiveSupplier(q, df)
    [] i = 68 -> OrdersFromSupplierInYear(q, df)
    [] i = 69 -> HowManyOrdersFromSupplier(q, df)
    [] i = 70 -> TopItems(q, df)

\* what every rule would do, were it reached
Outcomes(q, df) == Tab([i \in 1..NRules |-> RuleOut(i, q, df)], NRules)

\* the if that opens the chain of rule i
ChainHead(i) == Max({j \in 1..i : RuleKind[j] = "if"})

\* rule i is reached, provided no rule before it has ended the call: an
\* elif is reached only when the condition of the if and of every elif
\* before it in its chain is false
Entered(outs, i) == \A j \in ChainHead(i)..(i - 1) : outs[j].kind = "skip"

\* the rules whose branch ends the call, by a return or by an exception
Ending(outs) ==
  {i \in 1..NRules : Entered(outs, i) /\ outs[i].kind \in {"ret", "raise"}}

\* the tables load_procurement_data makes of the contents of Stores, each
\* as it is made and as line 535 leaves it
Loaded == Tab([si \in 1..Len(Stores) |-> Load(Stores[si], TRUE, "records").val], Len(Stores))
\* the tables dfs, and each of them as line 535 leaves it
WithAndWithoutItemClean(dfs) ==
  dfs \o [k \in 1..Len(dfs) |->
           IF "Item Name" \in dfs[k].cols THEN WithItemClean(dfs[k]) ELSE dfs[k]]
Tables == WithAndWithoutItemClean(SelectSeq(Loaded, LAMBDA df : ~IsEmpty(df)))

\* the rule that ends the call (0: none does, the fallback answers)
FiredRule(outs) == IF Ending(outs) = {} THEN 0 ELSE Min(Ending(outs))

\* the text of line 112
CouldNotLoad == ":warning: Could not load data. Please check database connection."

\* the cached table after the call that rule fired has ended: the rule of
\* line 530 adds the column Item_Clean to it (line 535) when it is reached
TableAfter(df, fired) ==
  IF fired # 0 /\ RuleNames[fired] = "TotalPriceOfItemsInYear" /\ "Item Name" \in df.cols
  THEN WithItemClean(df) ELSE df

\* handle_question(message) with df the table load_procurement_data gave:
\*   outs  what each rule would do with the question
\*   out   what the call does, a return of text or an exception
\*   df    the table as the call leaves it
Routed(outs, df) ==
  [outs |-> outs,
   out |-> IF FiredRule(outs) = 0 THEN Ret(Fallback) ELSE outs[FiredRule(outs)],
   df |-> TableAfter(df, FiredRule(outs))]
\* handle_question without line 114: the rules read the question as typed
handle_question_as_typed(message, df) ==
  IF IsEmpty(df) THEN [outs |-> <<>>, out |-> Ret(CouldNotLoad), df |-> df]
  ELSE Routed(Outcomes(message, df), df)

handle_question_body(message, df) ==
  IF IsEmpty(df) THEN [outs |-> <<>>, out |-> Ret(CouldNotLoad), df |-> df]
  ELSE Routed(Outcomes(Lower(message), df), df)

handle_question(message, df) == Invoke("handle_question", <<message, df>>)

\* handle_question for the questions and the tables of the model, computed
\* once
Handled ==
  Tab([ti \in 1..Len(Tables) |->
         Tab([qi \in 1..Len(Questions) |-> handle_question(Questions[qi], Tables[ti])],
             Len(Questions))], Len(Tables))

\* handle_question(message, df), read in Handled where it is there
HandleOf(message, df) ==
  LET qs == {qi \in 1..Len(Questions) : Questions[qi] = message}
      ts == {ti \in 1..Len(Tables) : Tables[ti] = df}
  IN IF IsEmpty(df) \/ qs = {} \/ ts = {} THEN handle_question(message, df)
     ELSE Handled[CHOOSE ti \in ts : TRUE][CHOOSE qi \in qs : TRUE]
Handle(message, df) == Invoke("Handle", <<message, df>>)

\* chatbot_response without the except clause of lines 999-1001
chatbot_response_no_except(out) == out

\* chatbot_response(message, history), given what handle_question does:
\* the except clause of lines 999-1001 turns an exception into text
chatbot_response(out) ==
  IF out.kind = "raise" THEN Ret(":x: Error: " \o out.text) ELSE out

----------------------------------------------------------------------------
(* The process: the memoized loader and the calls of chatbot_response.     *)

\* the values handed to format_currency
FiniteFloats == {PyFloat(c) : c \in {0, 1, 5, 99, 100, 1234, 99999, 100000, 123456, 100000000, 0 - 500, 0 - 123456}}
SmallInts == {PyInt(k) : k \in {0, 7, 1000, 1234567, 0 - 42}}
Numerals == {p \o w \o f : p \in {"", "$"}, w \in {"0", "12", "999", "1,000", "1234", "1,234,567"},
                            f \in {"", ".5", ".50", ".05"}}
OtherTexts == {"", "abc", "$", "N/A", "nan", "inf", " 12 ", "-3", "12.5.1", "1,2,3", ".5", "twelve dollars", "$-1,000.25"}
Amounts ==
  {PyNone, PyNan, PyInf, PyMinusInf, PyHugeInt, PyList, PyDict}
  \cup FiniteFloats \cup SmallInts \cup {PyStr(t) : t \in Numerals \cup OtherTexts}
\* no call of format_currency is under way
NoAmount == [type |-> "no call", n |-> 0, s |-> ""]
NotCalled == [err |-> FALSE, val |-> "not called"]
Calling == [err |-> FALSE, val |-> "calling"]

NThreads == 2
Threads == 1..NThreads
StoreContents == {Stores[i] : i \in 1..Len(Stores)}
Asked == {Questions[i] : i \in 1..Len(Questions)}

\* a loader without lru_cache: no call finds a cached result
CacheGetNothing(c, h) == <<>>

\* a cache that does not keep an empty table
CacheGetUnlessEmpty(c, h) == IF c # <<>> /\ IsEmpty(h[c[1]]) THEN <<>> ELSE c

\* lru_cache(maxsize=1), line 58: the cached result of the one key, <<>>
\* when there is none (c: the cache, h: the objects)
CacheGet(c, h) == c

\* lru_cache after the body has returned object id: it keeps id, unless the
\* key was cached while the body ran
CachePut(c, id) == IF c = <<>> THEN <<id>> ELSE c

\* load_procurement_data() with no other call under way: the result (the
\* id of a table, or an exception) and what the call leaves behind
load_procurement_data(c, h, n, data, up, f) ==
  LET hit == CacheGet(c, h)
      made == Load(data, up, f)
  IN IF hit # <<>>
     THEN [res |-> Ok(hit[1]), cache |-> c, heap |-> h, queries |-> n]
     ELSE IF made.err
     THEN [res |-> made, cache |-> c, heap |-> h, queries |-> n + 1]
     ELSE [res |-> Ok(Len(h) + 1), cache |-> CachePut(c, Len(h) + 1),
           heap |-> Append(h, made.val), queries |-> n + 1]

\* chatbot_response(q, history) from its call to its end, no other call
\* being under way: what it returns and what it leaves behind
Response(c, h, n, data, up, f, q) ==
  LET l == load_procurement_data(c, h, n, data, up, f)
      hq == Handle(q, l.heap[l.res.val])
  IN [cache |-> l.cache,
      heap |-> IF l.res.err THEN l.heap ELSE [l.heap EXCEPT ![l.res.val] = hq.df],
      queries |-> l.queries,
      got |-> IF l.res.err THEN 0 ELSE l.res.val,
      out |-> chatbot_response(IF l.res.err THEN Raise(l.res.msg) ELSE hq.out)]
Respond(c, h, n, data, up, f, q) == Invoke("chatbot_response", <<c, h, n, data, up, f, q>>)

Invoke(f, a) ==
  CASE f = "re.search" -> re_search(a[1], a[2], a[3])
    [] f = "re.findall" -> re_findall(a[1], a[2])
    [] f = "re.sub" -> re_sub(a[1], a[2])
    [] f = "str.contains" -> str_contains(a[1], a[2], a[3], a[4])
    [] f = "load_procurement_data" -> LoadBody(a[1], a[2], a[3], CleanDataOf)
    [] f = "handle_question" -> handle_question_body(a[1], a[2])
    [] f = "Handle" -> HandleOf(a[1], a[2])
    [] f = "chatbot_response" -> Response(a[1], a[2], a[3], a[4], a[5], a[6], a[7])

Init ==
  /\ store \in StoreContents
  /\ storeUp \in BOOLEAN
  /\ fetch \in {"records", "raises"}
  /\ heap = <<>>
  /\ cache = <<>>
  /\ queries = 0
  /\ pc = [t \in Threads |-> "idle"]
  /\ question = [t \in Threads |-> ""]
  /\ got = [t \in Threads |-> 0]
  /\ answer = [t \in Threads |-> ""]
  /\ given = NoAmount
  /\ rendered = NotCalled

\* chatbot_response(q, history) from its call to its end, no other call
\* being under way
Ask(t, q) ==
  /\ \A u \in Threads : pc[u] = "idle"
  /\ \E r \in {Respond(cache, heap, queries, store, storeUp, fetch, q)} :
        /\ cache' = r.cache
        /\ heap' = r.heap
        /\ queries' = r.queries
        /\ got' = [got EXCEPT ![t] = r.got]
        /\ answer' = [answer EXCEPT ![t] = r.out.text]
        /\ pc' = [pc EXCEPT ![t] = IF r.out.kind = "raise" THEN "raised" ELSE "answered"]
  /\ question' = [question EXCEPT ![t] = q]
  /\ UNCHANGED <<store, storeUp, fetch, given, rendered>>

\* the caller has the answer (or the exception) and goes on
Return(t) ==
  /\ pc[t] \in {"answered", "raised"}
  /\ pc' = [pc EXCEPT ![t] = "idle"]
  /\ question' = [question EXCEPT ![t] = ""]
  /\ got' = [got EXCEPT ![t] = 0]
  /\ answer' = [answer EXCEPT ![t] = ""]
  /\ UNCHANGED <<store, storeUp, fetch, heap, cache, queries, given, rendered>>

\* the surroundings: the server stops or starts, reads begin or cease to
\* fail, the collection changes
ServerStops ==
  /\ storeUp /\ storeUp' = FALSE
  /\ UNCHANGED <<store, fetch, heap, cache, queries, pc, question, got, answer, given, rendered>>
ServerStarts ==
  /\ ~storeUp /\ storeUp' = TRUE
  /\ UNCHANGED <<store, fetch, heap, cache, queries, pc, question, got, answer, given, rendered>>
FetchBreaks ==
  /\ fetch = "records" /\ fetch' = "raises"
  /\ UNCHANGED <<store, storeUp, heap, cache, queries, pc, question, got, answer, given, rendered>>
FetchRecovers ==
  /\ fetch = "raises" /\ fetch' = "records"
  /\ UNCHANGED <<store, storeUp, heap, cache, queries, pc, question, got, answer, given, rendered>>
StoreChanges ==
  /\ \E s \in StoreContents \ {store} : store' = s
  /\ UNCHANGED <<storeUp, fetch, heap, cache, queries, pc, question, got, answer, given, rendered>>

Surroundings ==
  ServerStops \/ ServerStarts \/ FetchBreaks \/ FetchRecovers \/ StoreChanges

Next ==
  \/ \E t \in Threads : \E q \in Asked : Ask(t, q)
  \/ \E t \in Threads : Return(t)
  \/ Surroundings

Spec == Init /\ [][Next]_vars

----------------------------------------------------------------------------
(* The same calls with their steps apart: threads of the server may be in  *)
(* chatbot_response at the same time, and lru_cache runs the body of       *)
(* load_procurement_data without holding a lock.  The store stays as it is *)
(* at the start.                                                           *)

\* the questions asked where calls overlap
ConcAsked == {"orders in 2014", "total price of paper purchased in 2014"}

\* chatbot_response(q, history) is called
Call(t, q) ==
  /\ pc[t] = "idle"
  /\ pc' = [pc EXCEPT ![t] = "called"]
  /\ question' = [question EXCEPT ![t] = q]
  /\ UNCHANGED <<store, storeUp, fetch, heap, cache, queries, got, answer, given, rendered>>

\* the wrapper of lru_cache looks the key up: a hit returns the cached
\* object, a miss goes on to the body
Lookup(t) ==
  /\ pc[t] = "called"
  /\ IF CacheGet(cache, heap) # <<>>
     THEN /\ got' = [got EXCEPT ![t] = CacheGet(cache, heap)[1]]
          /\ pc' = [pc EXCEPT ![t] = "loaded"]
     ELSE /\ got' = got
          /\ pc' = [pc EXCEPT ![t] = "loading"]
  /\ UNCHANGED <<store, storeUp, fetch, heap, cache, queries, question, answer, given, rendered>>

\* the body of load_procurement_data runs and the wrapper stores its result
Body(t) ==
  /\ pc[t] = "loading"
  /\ \E made \in {Load(store, storeUp, fetch)} :
     LET out == chatbot_response(Raise(made.msg))
     IN IF made.err
        THEN /\ answer' = [answer EXCEPT ![t] = out.text]
             /\ pc' = [pc EXCEPT ![t] = IF out.kind = "raise" THEN "raised" ELSE "answered"]
             /\ UNCHANGED <<heap, cache, got>>
        ELSE /\ heap' = Append(heap, made.val)
             /\ cache' = CachePut(cache, Len(heap) + 1)
             /\ got' = [got EXCEPT ![t] = Len(heap) + 1]
             /\ pc' = [pc EXCEPT ![t] = "loaded"]
             /\ answer' = answer
  /\ queries' = queries + 1
  /\ UNCHANGED <<store, storeUp, fetch, question, given, rendered>>

\* the rest of handle_question, and the return of chatbot_response
Route(t) ==
  /\ pc[t] = "loaded"
  /\ \E h \in {Handle(question[t], heap[got[t]])} :
     LET out == chatbot_response(h.out)
     IN /\ heap' = [heap EXCEPT ![got[t]] = h.df]
        /\ answer' = [answer EXCEPT ![t] = out.text]
        /\ pc' = [pc EXCEPT ![t] = IF out.kind = "raise" THEN "raised" ELSE "answered"]
  /\ UNCHANGED <<store, storeUp, fetch, cache, queries, question, got, given, rendered>>

NextConc ==
  \/ \E t \in Threads : \E q \in ConcAsked : Call(t, q)
  \/ \E t \in Threads : Lookup(t)
  \/ \E t \in Threads : Body(t)
  \/ \E t \in Threads : Route(t)
  \/ \E t \in Threads : Return(t)

SpecConc == Init /\ [][NextConc]_vars

----------------------------------------------------------------------------
(* format_currency on its own: a caller hands it a value and takes what it *)
(* gives. The values are those of the types Python code can pass: None,    *)
(* floats, ints, texts, a list, a dict.                                    *)

InitFormat ==
  /\ store = Stores[1]
  /\ storeUp = TRUE
  /\ fetch = "records"
  /\ heap = <<>>
  /\ cache = <<>>
  /\ queries = 0
  /\ pc = [t \in Threads |-> "idle"]
  /\ question = [t \in Threads |-> ""]
  /\ got = [t \in Threads |-> 0]
  /\ answer = [t \in Threads |-> ""]
  /\ given = NoAmount
  /\ rendered = NotCalled

\* a caller picks the value it will format
PassAmount(a) ==
  /\ rendered = NotCalled
  /\ given' = a
  /\ rendered' = Calling
  /\ UNCHANGED <<store, storeUp, fetch, heap, cache, queries, pc, question, got, answer>>

\* format_currency(amount) from its call to its return or its exception
FormatAmount ==
  /\ rendered = Calling
  /\ rendered' = format_currency(given)
  /\ UNCHANGED <<store, storeUp, fetch, heap, cache, queries, pc, question, got, answer, given>>

\* the caller leaves with the result
TakeResult ==
  /\ rendered \notin {NotCalled, Calling}
  /\ given' = NoAmount
  /\ rendered' = NotCalled
  /\ UNCHANGED <<store, storeUp, fetch, heap, cache, queries, pc, question, got, answer>>

NextFormat ==
  \/ \E a \in Amounts : PassAmount(a)
  \/ FormatAmount
  \/ TakeResult

SpecFormat == InitFormat /\ [][NextFormat]_vars

----------------------------------------------------------------------------
(* Properties.                                                             *)

\* thread t has the answer to a question asked of a table with rows
Answered(t) == pc[t] = "answered" /\ got[t] # 0 /\ ~IsEmpty(heap[got[t]])

\* what each rule would do with the question of t
OutsOf(t) == Handle(question[t], heap[got[t]]).outs

StartsWith(s, prefix) == Len(s) >= Len(prefix) /\ SubSeq(s, 1, Len(prefix)) = prefix

\* the earliest rule, in the order of the text, whose condition holds and
\* whose branch ends the call (0: there is none)
FirstReturning(outs) ==
  LET ending == {i \in 1..Len(outs) : outs[i].kind \in {"ret", "raise"}}
  IN IF ending = {} THEN 0 ELSE Min(ending)

\* C1: for every question asked of a table with rows, the answer is that of
\* the earliest rule in the order of the text whose condition holds and
\* whose branch returns; no such rule is passed over, the rules written as
\* elif of an earlier rule included.
C1_EarliestMatchingRuleAnswers ==
  \A t \in Threads :
    Answered(t) =>
      LET outs == OutsOf(t)
          i == FirstReturning(outs)
      IN answer[t] = chatbot_response(IF i = 0 THEN Ret(Fallback) ELSE outs[i]).text

\* C2: chatbot_response returns text for every question and every cached
\* table and never raises; when a branch of handle_question raises, the text
\* is the error marker followed by the message of the exception.
C2_ErrorsBecomeText ==
  \A t \in Threads :
    /\ pc[t] # "raised"
    /\ Answered(t) =>
         LET out == Handle(question[t], heap[got[t]]).out
         IN out.kind = "raise" => answer[t] = ":x: Error: " \o out.text

\* C2, its case: a question whose pattern captures nothing has been answered
\* with the error text
C2_Witness ==
  \E t \in Threads :
    /\ Answered(t)
    /\ question[t] = "normalized unspsc for"
    /\ answer[t] = ":x: Error: 'NoneType' object has no attribute 'group'"

\* C3: when the table has rows and the condition of no rule holds for the
\* question, the answer is the one fallback text, the same for all such
\* questions, and not an error text.
C3_FallbackWhenNoRuleMatches ==
  \A t \in Threads :
    (Answered(t) /\ \A i \in 1..NRules : OutsOf(t)[i].kind = "skip") =>
      /\ answer[t] = ":x: I didn't understand your question. Try one of these:\n\n"
                     \o "- Try asking about orders in a specific year or quarter\n"
                     \o "- Ask about spending by supplier or department\n"
                     \o "- Query about most frequently purchased items"
      /\ ~StartsWith(answer[t], ":x: Error: ")

\* C3, its case: the question about the weather has been answered from a
\* table with rows
C3_Witness ==
  \E t \in Threads :
    /\ Answered(t)
    /\ question[t] = "what is the weather today?"
    /\ StartsWith(answer[t], ":x: I didn't understand your question.")

\* C4: over the calls of one process, one after the other, the store is
\* read at most once, by the first call, and every later call gets the very
\* table object that the first call got.
C4_StoreQueriedOnce ==
  /\ queries <= 1
  /\ Len(heap) <= 1
  /\ \A t \in Threads : pc[t] # "idle" => queries = 1 /\ cache = <<1>> /\ got[t] = 1

\* C4, its case: a call has been answered from the cached table with rows
\* while the store has no record to give
C4_Witness ==
  \E t \in Threads :
    /\ Answered(t)
    /\ queries = 1
    /\ store = <<>>

\* C5: once the load has produced an empty table, every question asked
\* afterwards is answered with the text of line 112 and nothing is raised,
\* also when the store can be read again.
C5_EmptyTableStays ==
  [][(cache # <<>> /\ IsEmpty(heap[cache[1]])) =>
       /\ cache' = cache
       /\ IsEmpty(heap'[cache'[1]])
       /\ \A t \in Threads :
            /\ pc'[t] # "raised"
            /\ pc'[t] = "answered" =>
                 answer'[t] = ":warning: Could not load data. Please check database connection."]_vars

\* C5, its case: a question has been answered with the text of line 112
\* from the cached empty table while the store is up and has orders of the
\* valid years
C5_Witness ==
  \E t \in Threads :
    /\ pc[t] = "answered"
    /\ cache # <<>> /\ IsEmpty(heap[cache[1]])
    /\ answer[t] = ":warning: Could not load data. Please check database connection."
    /\ storeUp /\ fetch = "records" /\ store = Stores[1]

\* C6: when the connection cannot be made or the read of the records
\* raises, load_procurement_data returns an empty table and raises nothing
\* to its caller.
C6_FailedLoadGivesEmptyTable ==
  [][(queries' = queries + 1 /\ (~storeUp \/ fetch = "raises")) =>
       /\ Len(heap') = Len(heap) + 1
       /\ heap'[Len(heap')] = [cols |-> {}, rows |-> <<>>]
       /\ \A t \in Threads :
            /\ pc'[t] # "raised"
            /\ (pc[t] = "idle" /\ pc'[t] # "idle") =>
                 /\ got'[t] = Len(heap')
                 /\ ~StartsWith(answer'[t], ":x: Error: ")]_vars

\* C6, its case: the body has run with the read failing, and the caller has
\* an empty table
C6_Witness ==
  \E t \in Threads :
    /\ pc[t] = "answered" /\ got[t] = 1 /\ queries = 1
    /\ heap[1] = [cols |-> {}, rows |-> <<>>]
    /\ storeUp /\ fetch = "raises" /\ store = Stores[1]

\* C7: when two or more callers are in load_procurement_data before any of
\* the calls has ended, the body runs once and all of them get the same
\* table.
C7_ConcurrentLoadRunsOnce ==
  /\ queries <= 1
  /\ \A t, u \in Threads : (got[t] # 0 /\ got[u] # 0) => got[t] = got[u]

\* the questions that name a year and nothing else, with the year
YearOnly ==
  { <<"orders in 2014", 2014>>, <<"How many orders were placed in 2014?", 2014>>,
    <<"orders in 2013", 2013>>, <<"orders in 2011", 2011>>,
    <<"how many orders were placed in 2016?", 2016>> }

\* the number of rows of df whose Year is y
RowsOfYear(df, y) == Cardinality({i \in 1..Len(df.rows) : df.rows[i]["Year"] = Some(y)})

\* C8: for a question that names a year and nothing else, the count in the
\* answer is the number of cached rows whose Year is that year, and zero
\* for a year outside 2012..2015.
C8_YearCount ==
  \A t \in Threads : \A p \in YearOnly :
    (Answered(t) /\ question[t] = p[1]) =>
      /\ answer[t] = ":package: Total orders in " \o DecStr(p[2]) \o ": **"
                     \o DecStr(RowsOfYear(heap[got[t]], p[2])) \o "**"
      /\ p[2] \notin 2012..2015 =>
           answer[t] = ":package: Total orders in " \o DecStr(p[2]) \o ": **0**"

\* C8, its case: a year in the range with rows to count, and a year outside
\* of which the store has an order
C8_Witness ==
  /\ \E t \in Threads :
       /\ Answered(t)
       /\ \/ question[t] = "orders in 2014" /\ answer[t] = ":package: Total orders in 2014: **2**"
          \/ /\ question[t] = "orders in 2011" /\ Len(heap[got[t]].rows) = 4
             /\ answer[t] = ":package: Total orders in 2011: **0**"

\* the questions for the N suppliers of highest spend, with N and the year
\* (0: all years)
TopSupplierQuestions ==
  { <<"top 2 suppliers by total spend", 2, 0>>, <<"top 1 suppliers by total spend", 1, 0>>,
    <<"TOP 2 SUPPLIERS BY TOTAL SPEND", 2, 0>>,
    <<"top 5 suppliers by total spend in 2014", 5, 2014>> }

\* the suppliers of the rows of df in the year y (0: all), in the order in
\* which the rows first name them, each with the sum of its Total Price
SpendInRowOrder(df, y) ==
  LET inside == SelectIdx(Len(df.rows), LAMBDA i : y = 0 \/ df.rows[i]["Year"] = Some(y))
      first == SelectIdx(Len(inside), LAMBDA k :
                 \A j \in 1..(k - 1) :
                   df.rows[inside[j]]["Supplier Name"] # df.rows[inside[k]]["Supplier Name"])
  IN [k \in 1..Len(first) |->
        [key |-> Val(df.rows[inside[first[k]]]["Supplier Name"]),
         sum |-> SumCells([j \in 1..Len(inside) |->
                             IF df.rows[inside[j]]["Supplier Name"] = df.rows[inside[first[k]]]["Supplier Name"]
                             THEN df.rows[inside[j]]["Total Price"] ELSE NaN], Len(inside))]]

\* the first n of es by descending sum, equal sums in the order of es
RankedFirstSeen(es, n) ==
  LET Place(i) == 1 + Cardinality({j \in 1..Len(es) :
                       es[j].sum > es[i].sum \/ (es[j].sum = es[i].sum /\ j < i)})
  IN [k \in 1..Min({n, Len(es)}) |-> es[CHOOSE i \in 1..Len(es) : Place(i) = k]]

\* C9: for a question for the top N suppliers by total spend, of a year or
\* of all, the suppliers are listed by descending sum of Total Price, equal
\* sums in the order in which the rows first name them, and min(N, number
\* of suppliers) of them are listed.
C9_TopSuppliersFirstSeenOrder ==
  \A t \in Threads : \A p \in TopSupplierQuestions :
    (Answered(t) /\ question[t] = p[1]) =>
      LET top == RankedFirstSeen(SpendInRowOrder(heap[got[t]], p[3]), p[2])
      IN answer[t] = ":trophy: Top " \o DecStr(p[2]) \o " suppliers "
                     \o (IF p[3] = 0 THEN "overall" ELSE "in " \o DecStr(p[3])) \o ":\n"
                     \o Join([k \in 1..Len(top) |->
                                DecStr(k) \o ". " \o top[k].key \o ": $" \o Money(top[k].sum)], "\n")

\* the questions for the spending on an item in a year, with item and year
ItemYearQuestions == { <<"total spending on paper in 2014", "paper", 2014>> }

\* C10: a question 'total spending on ITEM in YEAR' is answered with the
\* sum of Total Price over the cached rows whose item name contains ITEM
\* and whose Year is YEAR; for the three orders of Stores[1], 'total
\* spending on paper in 2014' gives $100.00.
C10_ItemSpendingInYear ==
  \A t \in Threads : \A p \in ItemYearQuestions :
    (Answered(t) /\ question[t] = p[1] /\ "Item Name" \in heap[got[t]].cols) =>
      LET df == heap[got[t]]
          rows == SelectIdx(Len(df.rows), LAMBDA i :
                    /\ Has(Lower(TextCell(df.rows[i]["Item Name"])), p[2])
                    /\ df.rows[i]["Year"] = Some(p[3]))
          total == SumCells([k \in 1..Len(rows) |-> df.rows[rows[k]]["Total Price"]], Len(rows))
      IN /\ Has(answer[t], "$" \o Money(total))
         /\ (Len(df.rows) = 3 /\ Len(rows) = 1) => Has(answer[t], "$100.00")

\* the questions for a sum over rows that no table of the model has:
\*   col, frag  the rows summed are those whose col contains frag (for
\*              Year: equals it; for CalCard: equals it in upper case)
\*   zero       the rule answers with the sum also when no row is summed
\*   text       the answer of the rule when no row is summed
SumQuestions ==
  { [q |-> "total spend by hooli", col |-> "Supplier Name", frag |-> "hooli", zero |-> FALSE,
     text |-> ":warning: No spending found for supplier 'hooli'"],
    [q |-> "total spend by hooli in fiscal year 2014", col |-> "Supplier Name", frag |-> "hooli",
     zero |-> FALSE, text |-> ":warning: No spending found for Hooli in FY2014"],
    [q |-> "total price of staplers purchased in 2014", col |-> "Item Name", frag |-> "staplers",
     zero |-> FALSE, text |-> ":warning: No spending found for 'staplers' in 2014"],
    [q |-> "total spending in 2012", col |-> "Year", frag |-> "2012", zero |-> TRUE,
     text |-> ":money_with_wings: Total spending in 2012: **$0.00**"],
    [q |-> "total calcard spending in 2014", col |-> "CalCard", frag |-> "yes", zero |-> TRUE,
     text |-> ":credit_card: Total CalCard spending in 2014: **$0.00**"],
    [q |-> "calcard spending in fiscal year 2014", col |-> "CalCard", frag |-> "yes", zero |-> TRUE,
     text |-> ":credit_card: Total CalCard spending in FY2014: **$0.00**"],
    [q |-> "total spend for the department parks in fiscal year 2014", col |-> "Department Name",
     frag |-> "parks", zero |-> TRUE,
     text |-> ":classical_building: Total spend for Parks in FY2014: $0.00"] }

\* no row of df is among those the question p sums
NoRowSummed(df, p) ==
  \A i \in 1..Len(df.rows) :
    IF p.col = "Year" THEN df.rows[i]["Year"] # Some(IntOf(p.frag))
    ELSE ~Has(Lower(TextCell(df.rows[i][p.col])), p.frag)

\* thread t has the answer to the question p, asked of a table that has the
\* column of p and no row to sum
SumOfNothing(t, p) ==
  /\ Answered(t) /\ question[t] = p.q
  /\ p.col \in heap[got[t]].cols
  /\ NoRowSummed(heap[got[t]], p)

LookupQuestions ==
  { [q |-> "purchase order number for requisition abc",
     cols |-> {"Requisition Number"}, frag |-> "ABC"],
    [q |-> "which acquisition type had the highest spend in 2012?",
     cols |-> {"Year"}, frag |-> "2012"],
    [q |-> "po number zzz999",
     cols |-> {"Requisition Number", "Purchase Order Number"}, frag |-> "ZZZ999"],
    [q |-> "quarter with the highest spending in 2012",
     cols |-> {"Year"}, frag |-> "2012"] }

\* no row of df is among those the question p looks at
NoRowLookedAt(df, p) ==
  \A i \in 1..Len(df.rows) : \A c \in p.cols :
    IF c = "Year" THEN df.rows[i]["Year"] # Some(IntOf(p.frag))
    ELSE ~Has(Upper(AsStr(df.rows[i][c])), p.frag)

\* thread t has the answer to the question p, asked of a table that has the
\* columns of p and no row to look at
LookupOfNothing(t, p) ==
  /\ Answered(t) /\ question[t] = p.q
  /\ p.cols \subseteq heap[got[t]].cols
  /\ NoRowLookedAt(heap[got[t]], p)

\* C12: every rule that looks one row up or takes the greatest sum of a
\* group (purchase order number of a requisition, acquisition type of the
\* highest spend, order by its number, quarter of the highest spending of
\* a year) answers, when no row is selected, with a text of its own that
\* nothing was found: no exception is raised and the answer is not the
\* error text.
C12_EmptyLookupSaysNothingFound ==
  \A t \in Threads : \A p \in LookupQuestions :
    LookupOfNothing(t, p) =>
      /\ StartsWith(answer[t], ":warning: No ")
      /\ ~StartsWith(answer[t], ":x: Error: ")
      /\ Handle(question[t], heap[got[t]]).out.kind # "raise"

\* C12, its case: the purchase order number of a requisition that no row
\* has was asked for, and the call has been answered
C12_Witness ==
  \E t \in Threads : \E p \in LookupQuestions :
    /\ LookupOfNothing(t, p)
    /\ p.q = "purchase order number for requisition abc"

\* pairs of questions that differ in the case of their letters only, the
\* first in lower case
CasePairs ==
  { <<"top 2 suppliers by total spend", "TOP 2 SUPPLIERS BY TOTAL SPEND">>,
    <<"total spend by acme", "Total Spend By ACME">>,
    <<"total price of paper purchased in 2014", "Total price of PAPER purchased in 2014">>,
    <<"how many orders were placed in 2014?", "How many orders were placed in 2014?">> }

\* what chatbot_response returns for the question q asked of the table df
AnswerTo(q, df) == chatbot_response(Handle(q, df).out).text

\* C13: two questions that differ in the case of their letters only get the
\* same answer from the same cached table; the text of a question that
\* names a supplier or an item selects the same rows in every casing.
C13_CaseOfQuestionDoesNotMatter ==
  \A t \in Threads : \A p \in CasePairs :
    (Answered(t) /\ question[t] = p[2]) => answer[t] = AnswerTo(p[1], heap[got[t]])

\* C13, its case: the spend of ACME, asked for in capital letters, has been
\* answered with the sum of the two orders of acme
C13_Witness ==
  \E t \in Threads :
    /\ Answered(t) /\ question[t] = "Total Spend By ACME"
    /\ answer[t] = AnswerTo("total spend by acme", heap[got[t]])
    /\ answer[t] = ":money_with_wings: Total spend by acme: **$150.00**"

\* questions that look an entity up by a piece of its text:
\*   frags  the columns looked at, each with the text of the question
\*   none   what the answer of the rule says when it selects no row
FragmentQuestions ==
  { [q |-> "How many orders did Acme make?",
     frags |-> {<<"Supplier Name", "acme">>}, none |-> "made **0** orders"],
    [q |-> "how many orders did a.me make?",
     frags |-> {<<"Supplier Name", "a.me">>}, none |-> "made **0** orders"],
    [q |-> "how many purchases used the informal (competitive acquisition method?",
     frags |-> {<<"Acquisition Method", "informal (competitive">>}, none |-> "purchases: 0"],
    [q |-> "quantity and unit price for the item paper in purchase order req0011118",
     frags |-> {<<"Purchase Order Number", "req0011118">>, <<"Item Name", "paper">>},
     none |-> "No matching purchase found"] }

\* the rows of df in which every text of p occurs in its column as it is
\* written, the case of the letters apart
LiteralRows(df, p) ==
  {i \in 1..Len(df.rows) :
     \A f \in p.frags : Has(Lower(AsStr(df.rows[i][f[1]])), Lower(f[2]))}

\* C14: a rule that looks a supplier, an item, a department, a purchase
\* order or an acquisition method or type up selects a row exactly when the
\* text of the question occurs in the field of the row, the case of the
\* letters apart, as it is written: '.', '(' and the like stand for
\* themselves, and a text that occurs in another case selects the row.
C14_FragmentsMatchLiterally ==
  \A t \in Threads : \A p \in FragmentQuestions :
    (Answered(t) /\ question[t] = p.q /\ {f[1] : f \in p.frags} \subseteq heap[got[t]].cols) =>
      /\ ~StartsWith(answer[t], ":x: Error: ")
      /\ (LiteralRows(heap[got[t]], p) = {}) <=> Has(answer[t], p.none)

\* C14, its case: the orders of 'a.me' were asked for of a table with rows
\* of acme, and the call has been answered
C14_Witness ==
  \E t \in Threads : \E p \in FragmentQuestions :
    /\ Answered(t) /\ question[t] = p.q /\ p.q = "how many orders did a.me make?"
    /\ LiteralRows(heap[got[t]], p) = {}
    /\ \E i \in 1..Len(heap[got[t]].rows) : heap[got[t]].rows[i]["Supplier Name"] = Some("acme")

\* C15: no call of handle_question changes the cached table: whatever the
\* questions asked, the table that load_procurement_data returned keeps the
\* rows, the columns and the values it had when it was loaded.
C15_QuestionsLeaveTableAsLoaded ==
  [][\A i \in 1..Len(heap) : heap'[i] = heap[i]]_vars

\* C15, its case: a question has been answered from a cached table with
\* rows, and the table has a column that the loader does not make
C15_Witness ==
  \E t \in Threads :
    /\ Answered(t) /\ cache = <<got[t]>>
    /\ "Item_Clean" \in heap[got[t]].cols

\* the table df without the column Item_Clean of line 535: df as
\* load_procurement_data made it
AsLoaded(df) ==
  IF "Item_Clean" \notin df.cols THEN df
  ELSE [cols |-> df.cols \ {"Item_Clean"},
        rows |-> [i \in 1..Len(df.rows) |->
                    [c \in df.cols \ {"Item_Clean"} |-> df.rows[i][c]]]]

\* C16: the answer depends on the question and on the table as it was
\* loaded only: a question gets the same text at every point of a session,
\* whatever questions were asked before it.
C16_AnswerIsThatOfTheLoadedTable ==
  \A t \in Threads :
    Answered(t) => answer[t] = AnswerTo(question[t], AsLoaded(heap[got[t]]))

\* C16, its case: a question on the items of a year has been answered from
\* a table that an earlier question has left with the column Item_Clean
C16_Witness ==
  \E t \in Threads :
    /\ Answered(t) /\ question[t] = "how much did we spend on paper in 2014"
    /\ "Item_Clean" \in heap[got[t]].cols
    /\ answer[t] = ":money_with_wings: Total spending on Paper in 2014: **$100.00**"

\* d is a day of the calendar
IsCalendarDate(d) ==
  /\ d.m \in 1..12
  /\ d.d \in 1..(CASE d.m \in {4, 6, 9, 11} -> 30
                   [] d.m = 2 -> IF (d.y % 4 = 0 /\ d.y % 100 # 0) \/ d.y % 400 = 0 THEN 29 ELSE 28
                   [] OTHER -> 31)

\* C17: every row of a table that load_procurement_data has returned has a
\* Purchase Date that is a day of the calendar of a year in 2012..2015: a
\* record whose date is of another year, or is no date, is not in the
\* table.
C17_RowsHaveDatesOfTheWindow ==
  \A k \in 1..Len(heap) : \A i \in 1..Len(heap[k].rows) :
    LET c == heap[k].rows[i]["Purchase Date"]
    IN /\ ~IsNa(c)
       /\ IsCalendarDate(Val(c))
       /\ Val(c).y \in 2012..2015

\* C17, its case: the table was loaded from the store that has an order of
\* 2011 and an order whose date is '2014', and has the four other orders
C17_Witness ==
  /\ queries = 1 /\ store = Stores[2] /\ cache = <<1>>
  /\ Len(heap[1].rows) = 4
  /\ \A i \in 1..4 : heap[1].rows[i]["Supplier Name"] \notin {Some("initech"), Some("hooli")}

\* C18: in every state, after the load and after any questions, Year, Month
\* and Quarter of every cached row are those of its Purchase Date.
C18_YearMonthQuarterOfTheDate ==
  \A k \in 1..Len(heap) : \A i \in 1..Len(heap[k].rows) :
    LET r == heap[k].rows[i]
        d == Val(r["Purchase Date"])
    IN /\ r["Year"] = Some(d.y)
       /\ r["Month"] = Some(d.m)
       /\ r["Quarter"] = Some(CASE d.m \in 1..3 -> 1 [] d.m \in 4..6 -> 2
                                [] d.m \in 7..9 -> 3 [] OTHER -> 4)

\* C18, its case: a question has been answered from a cached table that has
\* rows of March, of June and of November, and that a question has changed
C18_Witness ==
  \E t \in Threads :
    /\ Answered(t) /\ "Item_Clean" \in heap[got[t]].cols
    /\ {heap[got[t]].rows[i]["Quarter"] : i \in 1..Len(heap[got[t]].rows)} = {Some(1), Some(2), Some(4)}

\* the Purchase Date of the record r is a date of a year outside the window
\* of line 74 (such a record is dropped for its year)
DateOutsideWindow(r) ==
  /\ "Purchase Date" \in DOMAIN r
  /\ ~IsNa(ToDatetime(r["Purchase Date"]))
  /\ Val(ToDatetime(r["Purchase Date"])).y \notin 2012..2015

\* the records of data that the loader is to keep: all but those of a year
\* outside the window
RecordsToKeep(data) == {i \in 1..Len(data) : ~DateOutsideWindow(data[i])}

\* C19: a field of a record that cannot be read (a date or a price that is
\* none) or that the record does not carry makes that field missing and
\* nothing else: when the store is read, the table has a row for the record
\* and for every other record of the window, and is not the empty table.
C19_BadFieldKeepsTheRecord ==
  [][(queries' = queries + 1 /\ storeUp /\ fetch = "records") =>
       /\ Len(heap') = Len(heap) + 1
       /\ Len(heap'[Len(heap')].rows) = Cardinality(RecordsToKeep(store))
       /\ RecordsToKeep(store) # {} => ~IsEmpty(heap'[Len(heap')])]_vars

\* C19, its case: the store whose one record carries no CalCard has been
\* read, and the table that was returned is empty
C19_Witness ==
  /\ queries = 1 /\ storeUp /\ fetch = "records" /\ cache = <<1>>
  /\ store = Stores[5] /\ "CalCard" \notin DOMAIN store[1]
  /\ IsEmpty(heap[1])

\* questions answered with a list:
\*   cap        the greatest number of entries the rule shows
\*   col, frag  the rows listed are those whose col contains frag
\*   unique     the entries are the suppliers of the rows, each once (else
\*              the rows)
ListQuestions ==
  { [q |-> "list all suppliers", cap |-> 10, col |-> "Supplier Name", frag |-> "", unique |-> TRUE],
    [q |-> "list suppliers in zip 95814", cap |-> 50, col |-> "Supplier Zip Code", frag |-> "95814",
     unique |-> TRUE],
    [q |-> "purchases linked to location 95814", cap |-> 10, col |-> "Location", frag |-> "95814",
     unique |-> FALSE] }

\* the number of entries that the question p has in df
TrueTotal(df, p) ==
  LET rows == {i \in 1..Len(df.rows) : p.frag = "" \/ Has(AsStr(df.rows[i][p.col]), p.frag)}
  IN IF p.unique THEN Cardinality({df.rows[i]["Supplier Name"] : i \in rows})
     ELSE Cardinality(rows)

\* the number of entries listed in the text
Listed(text) == Cardinality(Occurrences(text, "\n- "))

\* C20: a rule that answers with a list shows no more entries than its cap
\* (10, 20, 50 or 100); when there are more entries than the cap, the
\* answer says how many are shown and how many there are, and the number
\* it says is the number of entries listed.
C20_ListsAreCappedAndSaySo ==
  \A t \in Threads : \A p \in ListQuestions :
    (Answered(t) /\ question[t] = p.q /\ p.col \in heap[got[t]].cols) =>
      LET total == TrueTotal(heap[got[t]], p)
      IN /\ Listed(answer[t]) <= p.cap
         /\ total > p.cap =>
              /\ Listed(answer[t]) = p.cap
              /\ Has(answer[t], "(Showing " \o DecStr(Listed(answer[t])) \o " of "
                                \o DecStr(total) \o " total")

\* C20, its case: the purchases of a location were asked for of a table
\* that has eleven of them, and ten are listed
C20_Witness ==
  \E t \in Threads : \E p \in ListQuestions :
    /\ Answered(t) /\ question[t] = p.q /\ p.q = "purchases linked to location 95814"
    /\ TrueTotal(heap[got[t]], p) = 11
    /\ Listed(answer[t]) = 10

----------------------------------------------------------------------------
(* format_currency (lines 17-26).                                          *)

\* the call of format_currency on the value given has ended
Formatted == rendered \notin {NotCalled, Calling}
\* the text is a '$', an optional minus sign, digits in groups of three
\* set apart by commas, a point and two decimals
IsMoneyText(text) ==
  LET t == IF Len(text) >= 2 /\ At(text, 2) = "-" THEN "$" \o Slice(text, 3, Len(text)) ELSE text
      n == Len(t)
  IN /\ n >= 5
     /\ At(t, 1) = "$"
     /\ At(t, n - 2) = "."
     /\ At(t, n - 1) \in DigitSet /\ At(t, n) \in DigitSet
     /\ At(t, 2) \in DigitSet
     /\ \A i \in 2..(n - 3) :
          IF (n - 3 - i) % 4 = 3 THEN At(t, i) = "," ELSE At(t, i) \in DigitSet
     /\ n - 4 <= 3 \/ At(t, 2) # "0"
\* the value is a number: an int, or a float other than nan
IsNumber(a) == a.type = "int" \/ (a.type = "float" /\ a.s # "nan")
\* the value is a text that, '$' and ',' set aside, is a decimal numeral
IsNumeral(a) ==
  a.type = "str" /\ LET u == Remove(Remove(a.s, "$"), ",")
                    IN u # "" /\ u # "." /\ Cardinality(Occurrences(u, ".")) <= 1
                       /\ \A i \in 1..Len(u) : At(u, i) \in DigitSet \cup {"."}
\* the value is missing, or is nothing float() reads as a number
IsMissingOrUnparseable(a) ==
  \/ a.type \in {"NoneType", "list", "dict"}
  \/ a.type = "float" /\ a.s = "nan"
  \/ a.type = "str" /\ FloatOfText(Remove(Remove(a.s, "$"), ",")).err

\* C21: format_currency returns a text for every value and raises nothing:
\* a number, or a numeral written with '$' and ',', comes out as '$', digits
\* with thousands separators and two decimals; a missing or unparseable
\* value comes out as exactly '$0.00'.
C21_FormatCurrencyAlwaysGivesMoneyText ==
  Formatted =>
    /\ ~rendered.err
    /\ IsNumber(given) \/ IsNumeral(given) => IsMoneyText(rendered.val)
    /\ IsMissingOrUnparseable(given) => rendered.val = "$0.00"

\* an int beyond the largest float has been formatted
C21_Witness == Formatted /\ given = PyHugeInt

----------------------------------------------------------------------------
(* format_order_details (lines 28-44).                                     *)

\* text.split("\n")[k - 1]
NthLine(text, k) ==
  LET cuts == {0, Len(text) + 1} \cup Occurrences(text, "\n")
      Cut(j) == CHOOSE c \in cuts : Cardinality({d \in cuts : d < c}) = j - 1
  IN Slice(text, Cut(k) + 1, Cut(k + 1) - 1)
\* the labels of the eleven fields, in the order of lines 32-42, and the
\* fields of the record that they show
OrderLabels ==
  <<"- Requisition #: ", "- PO #: ", "- Supplier: ", "- Item: ", "- Description: ",
    "- Quantity: ", "- Unit Price: ", "- Total Price: ", "- Date: ", "- Department: ",
    "- Location: ">>
OrderFields ==
  <<"Requisition Number", "Purchase Order Number", "Supplier Name", "Item Name",
    "Item Description", "Quantity", "Unit Price", "Total Price", "Purchase Date",
    "Department Name", "Location">>
\* what stands for a missing field: '$0.00' for the two prices, 'N/A' otherwise
Placeholder(i) == IF OrderFields[i] \in {"Unit Price", "Total Price"} THEN "$0.00" ELSE "N/A"
\* the texts Python and pandas print for a missing value
RawMissing == {"nan", "Nan", "NaN", "None", "NaT", "<NA>", ""}
\* t holds the details of an order
ShowsOrder(t) == Answered(t) /\ StartsWith(answer[t], ":page_facing_up: **Order Details**")
\* what the answer shows for the i-th field
FieldShown(text, i) ==
  Slice(NthLine(text, i + 1), Len(OrderLabels[i]) + 1, Len(NthLine(text, i + 1)))
\* no record of the table has the field: the column is absent, or holds no value
MissingInAllRows(df, f) == f \notin df.cols \/ \A i \in 1..Len(df.rows) : IsNa(df.rows[i][f])

\* C22: the details of an order show the same eleven fields in the same
\* order for every record, and a field the record lacks (the key is absent
\* or its value is missing) is shown as 'N/A', or as '$0.00' for the two
\* prices, never as a raw missing-value token.
C22_OrderDetailsShowPlaceholders ==
  \A t \in Threads :
    ShowsOrder(t) =>
      /\ Cardinality(Occurrences(answer[t], "\n")) = Len(OrderLabels)
      /\ \A i \in 1..Len(OrderLabels) :
           /\ StartsWith(NthLine(answer[t], i + 1), OrderLabels[i])
           /\ FieldShown(answer[t], i) \notin RawMissing
           /\ MissingInAllRows(heap[got[t]], OrderFields[i])
                => FieldShown(answer[t], i) = Placeholder(i)

\* the details of an order are shown from a table none of whose records has a
\* requisition number
C22_Witness ==
  \E t \in Threads : ShowsOrder(t) /\ MissingInAllRows(heap[got[t]], "Requisition Number")

----------------------------------------------------------------------------
(* The orders of a supplier in a year (lines 958-963, 516-526, 664-678).   *)

\* the number of the rule of that name in the order of the source
RuleNumber(name) == CHOOSE i \in 1..NRules : RuleNames[i] = name
\* the rows of df of the year whose supplier name contains the fragment
RowsOfSupplierInYear(df, fragment, year) ==
  {i \in 1..Len(df.rows) :
     /\ ~IsNa(df.rows[i]["Supplier Name"])
     /\ Has(Lower(Val(df.rows[i]["Supplier Name"])), Lower(fragment))
     /\ df.rows[i]["Year"] = Some(year)}
\* the answer gives n as its count
ReportsCount(text, n) ==
  Len(text) >= Len(": **" \o DecStr(n) \o "**")
  /\ SubSeq(text, Len(text) - Len(": **" \o DecStr(n) \o "**") + 1, Len(text))
       = ": **" \o DecStr(n) \o "**"

\* questions 'orders from SUPPLIER in YEAR', with the supplier and the year
\* that they name
OrdersFromQuestions ==
  { <<"Orders from Acme in 2014?", "acme", 2014>>,
    <<"orders from acme corporation in 2014", "acme corporation", 2014>> }

\* C23: a question 'orders from SUPPLIER in YEAR' is answered with the
\* number of the rows of the cached table whose supplier name contains
\* SUPPLIER and whose Year is YEAR, whatever letters SUPPLIER has ('po' in
\* 'corporation' or 'depot', 'req'): the rule that looks an order number up
\* does not answer it.
C23_OrdersFromSupplierInYearAreCounted ==
  \A t \in Threads : \A p \in OrdersFromQuestions :
    (Answered(t) /\ question[t] = p[1]) =>
      /\ FiredRule(OutsOf(t)) # RuleNumber("OrderNumberLookup")
      /\ ReportsCount(answer[t], Cardinality(RowsOfSupplierInYear(heap[got[t]], p[2], p[3])))

\* the orders of 'acme corporation' in 2014 were asked for of a table with
\* rows, and the call has been answered
C23_Witness ==
  \E t \in Threads :
    Answered(t) /\ question[t] = "orders from acme corporation in 2014"

\* questions 'total orders (of|from|by|for) SUPPLIER (in|for|during) YEAR',
\* with the supplier and the year that they name
TotalOrdersQuestions ==
  { <<"total orders from acme in 2014", "acme", 2014>>,
    <<"total orders by acme in 2014", "acme", 2014>> }

\* C24: a question 'total orders (of|from|by|for) SUPPLIER (in|for|during)
\* YEAR' is answered with the number of the rows of the cached table whose
\* supplier name contains SUPPLIER and whose Year is YEAR, whichever the
\* preposition: the year is not taken as a part of the name of the supplier.
C24_TotalOrdersOfSupplierInYearAreCounted ==
  \A t \in Threads : \A p \in TotalOrdersQuestions :
    (Answered(t) /\ question[t] = p[1]) =>
      ReportsCount(answer[t], Cardinality(RowsOfSupplierInYear(heap[got[t]], p[2], p[3])))

\* the total orders 'by acme in 2014' were asked for of a table with orders
\* of acme of 2014, and the call has been answered
C24_Witness ==
  \E t \in Threads :
    /\ Answered(t) /\ question[t] = "total orders by acme in 2014"
    /\ RowsOfSupplierInYear(heap[got[t]], "acme", 2014) # {}

----------------------------------------------------------------------------
(* The order of a requisition or purchase order number (lines 557-586).    *)

\* questions that look an order number up, with the number in capitals
OrderNumberQuestions ==
  { <<"po number req0011118", "REQ0011118">>,
    <<"po number req001", "REQ001">>,
    <<"po number zzz999", "ZZZ999">> }
\* the rows of df whose field f is the number, the case apart
RowsWithNumber(df, f, num) ==
  {i \in 1..Len(df.rows) : ~IsNa(df.rows[i][f]) /\ Upper(Val(df.rows[i][f])) = num}
\* the rows of df one of whose two numbers contains num
RowsContainingNumber(df, num) ==
  {i \in 1..Len(df.rows) :
     \E f \in {"Requisition Number", "Purchase Order Number"} :
       ~IsNa(df.rows[i][f]) /\ Has(Upper(Val(df.rows[i][f])), num)}
\* the rows of df whose details the text shows
RowsShown(df, text) == {i \in 1..Len(df.rows) : text = format_order_details(df, df.rows[i])}
\* the rows that may be shown for num: those of that requisition number if
\* there are any, else those of that order number, else those one of whose
\* numbers contains num
BestRows(df, num) ==
  IF RowsWithNumber(df, "Requisition Number", num) # {}
    THEN RowsWithNumber(df, "Requisition Number", num)
  ELSE IF RowsWithNumber(df, "Purchase Order Number", num) # {}
    THEN RowsWithNumber(df, "Purchase Order Number", num)
  ELSE RowsContainingNumber(df, num)

\* C25: when some row has the number as its requisition or order number
\* (the case apart), the order shown is such a row, one of that requisition
\* number if there is any; a row that only contains the number is shown only
\* when no row has it exactly; 'No order found' is the answer only when no
\* row has or contains it.
C25_ExactMatchIsShownFirst ==
  \A t \in Threads : \A p \in OrderNumberQuestions :
    (Answered(t) /\ question[t] = p[1]
       /\ {"Requisition Number", "Purchase Order Number"} \subseteq heap[got[t]].cols) =>
      IF BestRows(heap[got[t]], p[2]) = {}
      THEN answer[t] = ":warning: No order found with number " \o p[2]
      ELSE /\ RowsShown(heap[got[t]], answer[t]) # {}
           /\ RowsShown(heap[got[t]], answer[t]) \subseteq BestRows(heap[got[t]], p[2])

\* an order is shown for a number that is the order number of a row and the
\* requisition number of a later one
C25_Witness ==
  \E t \in Threads : \E p \in OrderNumberQuestions :
    /\ Answered(t) /\ question[t] = p[1] /\ ShowsOrder(t)
    /\ RowsWithNumber(heap[got[t]], "Requisition Number", p[2]) # {}
    /\ RowsWithNumber(heap[got[t]], "Purchase Order Number", p[2]) # {}
    /\ Min(RowsWithNumber(heap[got[t]], "Purchase Order Number", p[2]))
         < Min(RowsWithNumber(heap[got[t]], "Requisition Number", p[2]))

----------------------------------------------------------------------------
(* The orders of an acquisition method or type (lines 802-813).            *)

\* questions 'orders using/used/with KEYWORD', with the keyword
OrdersUsingQuestions == { <<"orders with it", "it">> }
\* the rows of df whose acquisition method or type contains the keyword
RowsUsing(df, keyword) ==
  {i \in 1..Len(df.rows) :
     \E f \in {"Acquisition Method", "Acquisition Type"} :
       ~IsNa(df.rows[i][f]) /\ Has(Lower(Val(df.rows[i][f])), keyword)}

\* C26: for 'orders using/used/with KEYWORD' the total of the answer is the
\* number of the rows of the cached table whose acquisition method or
\* acquisition type contains KEYWORD, each such row counted once.
C26_OrdersUsingAreCountedOnce ==
  \A t \in Threads : \A p \in OrdersUsingQuestions :
    (Answered(t) /\ question[t] = p[1] /\ RowsUsing(heap[got[t]], p[2]) # {}) =>
      ReportsCount(answer[t], Cardinality(RowsUsing(heap[got[t]], p[2])))

\* the orders with 'it' were asked for of a table a row of which has the
\* keyword both in its acquisition method and in its acquisition type
C26_Witness ==
  \E t \in Threads :
    /\ Answered(t) /\ question[t] = "orders with it"
    /\ \E i \in 1..Len(heap[got[t]].rows) :
         /\ Has(Lower(AsStr(heap[got[t]].rows[i]["Acquisition Method"])), "it")
         /\ Has(Lower(AsStr(heap[got[t]].rows[i]["Acquisition Type"])), "it")

----------------------------------------------------------------------------
(* Rules that come after a rule of a wider condition (lines 286-304,       *)
(* 333-339, 385-393, 904-909).                                             *)

\* the later rules: the top three suppliers, the total price under a supplier
\* code, the segment and family of 'does the', the second location with
\* most orders
ShadowedRules ==
  {RuleNumber(name) : name \in {"TopSuppliersBySpend", "SpendingBySupplierCode",
                                "SegmentFamilyClassification", "LocationWithMostOrders"}}
\* the call of t on a table with rows has ended, by a return or an exception
Ended(t) == pc[t] \in {"answered", "raised"} /\ got[t] # 0 /\ ~IsEmpty(heap[got[t]])

\* C27: the later rules 'top three suppliers based on total spend', 'total
\* price for all purchases under supplier code', 'segment and family
\* classification does the' and the second 'location with most orders'
\* never give the answer: whenever the condition of one of them holds of the
\* question, an earlier rule has ended the call, or the rule itself does not
\* return.
C27_LaterRulesNeverAnswer ==
  \A t \in Threads :
    Ended(t) =>
      \A i \in ShadowedRules :
        OutsOf(t)[i].kind # "skip" =>
          \/ FiredRule(OutsOf(t)) \in 1..(i - 1)
          \/ OutsOf(t)[i].kind \notin {"ret", "raise"}

\* a call has ended on a question of which the condition of the rule of
\* line 386 holds and whose branch would return were it reached
C27_Witness ==
  \E t \in Threads :
    /\ Ended(t)
    /\ OutsOf(t)[RuleNumber("SegmentFamilyClassification")].kind = "ret"

=============================================================================
